---- MODULE Spec2Model ----
(***************************************************************************)
(* The tool-augmented conversation orchestrator of StockAnalyzerPro:       *)
(* utils/models/deepseek.py (_chat_stream, _chat_non_stream, chat), the    *)
(* MCP tool gateway utils/mcp/init.py (call, tool_list, tool_call) and the *)
(* two Flask endpoints of pages/chat.py that drive a run and deliver its   *)
(* result to the client.                                                   *)
(*                                                                         *)
(* Strings are TLA+ strings; Python's None is the string "None".  The      *)
(* wall-clock fields of stats (timing_ms) are not modelled.  The variables *)
(* marked "history" record what the run did to its collaborators; no       *)
(* action reads them.                                                      *)
(***************************************************************************)
EXTENDS Integers, Sequences, FiniteSets, TLC

\* ------------------------------------------------------------------ bounds
MaxRounds == 2      \* mcp_max_call ranges over 0..MaxRounds
MaxChunks == 4      \* chunks the model endpoint streams during one run
MaxCalls == 2       \* tool calls in one non-streamed model response
MaxRetries == 2     \* max_retries ranges over 0..MaxRetries
MaxTtl == 2         \* snapshot_ttl_sec ranges over 1..MaxTtl
MaxBase == 1        \* base_delay_sec ranges over 1..MaxBase
MaxElapsed == 4     \* seconds the clock runs during one behaviour
MaxSlept == 40      \* seconds of backoff sleep during one behaviour
MaxFactor == 3      \* backoff ranges over 1..MaxFactor where it varies
MaxJitter == 2      \* jitter_sec ranges over 0..MaxJitter where it varies
MaxOps == 3         \* _get_spot_df / clear_cache calls in one behaviour
NumCallers == 2     \* threads that share the provider
MaxRows == 3        \* rows in the market snapshot
MaxTopn == 2        \* topn ranges over 1..MaxTopn

None == "None"

\* {} as tool_calls_dict
EmptyDict == [k \in {} |-> None]

VARIABLES
    mode,            \* chat(stream=...): "stream" | "sync"
    thinking,        \* chat(thinking=...)
    mcp_max_call,    \* chat(mcp_max_call=...)
    pc,              \* position of the run
    call_round,      \* the for-loop variable of the round loop
    messages,        \* the conversation
    events,          \* SSE events delivered to the client by chat_endpoint
    content_chunks,
    reasoning_chunks,
    tool_calls_dict,
    last_chunk,      \* None, or "chunk" once the response stream gave one
    tool_calls_list,
    i,               \* 1-based position in tool_calls_list (enumerate(.., 1))
    stats,
    raised,          \* the exception that left the orchestrator, or None
    reply,           \* what chat_sync_endpoint returned, or None
    modelCalls,      \* history: client.chat.completions.create calls issued
    invoked,         \* history: tools/call requests sent to the gateway
    toolRounds,      \* history: model responses that carried tool calls
    upstreamFailure, \* history: "tool_list" or "model" once that step failed
    chunksUsed,      \* chunks streamed so far in this run, capped by MaxChunks
    reportedTokens,  \* history: sums of the token counts the model reported
    deltas           \* history: the tool-call deltas of the response being
                     \* read, in arrival order

orchVars == <<mode, thinking, mcp_max_call, pc, call_round, messages, events,
              content_chunks, reasoning_chunks, tool_calls_dict, last_chunk,
              tool_calls_list, i, stats, raised, reply, modelCalls, invoked,
              toolRounds, upstreamFailure, chunksUsed, reportedTokens,
              deltas>>

\* data_provider.py: one AkshareProvider, its callers and its upstream
VARIABLES
    snapshot_ttl_sec,  \* AkshareProvider.__init__ parameters
    max_retries,
    base_delay_sec,
    backoff,
    jitter_sec,
    snapshot_cache,    \* self._snapshot_cache
    snapshot_cache_ts, \* self._snapshot_cache_ts
    clock,             \* time.time()
    ppc,               \* per caller: position inside _get_spot_df
    now,               \* per caller: the local `now` of _get_spot_df
    attempt,           \* per caller: the loop variable of _call_with_retry
    last_err,          \* per caller: the local last_err of _call_with_retry
    df,                \* per caller: the local df of _get_spot_df
    tried,             \* history, per caller: outcomes of fn() in this call
    slept,             \* history, per caller: delays slept in this call
    log,               \* history: the operations completed on the provider
    opsStarted,        \* operations started so far, capped by MaxOps
    upstreamCalls      \* history: ak.stock_zh_a_spot_em() calls made so far

provVars == <<snapshot_ttl_sec, max_retries, base_delay_sec, backoff,
              jitter_sec, snapshot_cache, snapshot_cache_ts, clock, ppc, now,
              attempt, last_err, df, tried, slept, log, opsStarted,
              upstreamCalls>>

\* data_provider.py: resolve_symbol and the market its upstream reports
VARIABLES
    market,      \* the rows ak.stock_zh_a_spot_em() returns
    amount_col,  \* whether those rows come with a traded-value column
    query,       \* resolve_symbol(query, topn)
    topn,
    rpc,         \* position inside resolve_symbol
    resolved     \* what the last resolve_symbol call returned or raised

resVars == <<market, amount_col, query, topn, rpc, resolved>>

vars == <<orchVars, provVars, resVars>>

\* ------------------------------------------------------- utils/mcp/init.py
\* What the remote endpoint can answer to one JSON-RPC request.
GatewayReplies == {"ok", "transport", "app_error"}

\* call(method, params): raise_for_status() raises on a transport error, an
\* "error" field raises RuntimeError, otherwise the decoded body is returned.
call(gw) ==
    CASE gw = "transport" -> [raised |-> TRUE, err |-> "HTTPError"]
      [] gw = "app_error" -> [raised |-> TRUE, err |-> "MCP error"]
      [] OTHER            -> [raised |-> FALSE, data |-> [result |-> "data"]]

tool_list(gw) == call(gw)

tool_call(gw) == call(gw)

\* ------------------------------------------------------------------- json
\* json.loads on the argument payloads that occur here: the alphabet of the
\* fragments is {"{", "}"}, over which "{}" is the only JSON document.
JsonValid(s) == s = "{}"

\* tc['function']['arguments'] or "{}"
OrEmptyObject(s) == IF s = "" THEN "{}" ELSE s

\* json.loads(...): the parsed value, here the empty object
json_loads(s) == "obj"

\* json.dumps(x, ensure_ascii=False) of a tool outcome
json_dumps(x) == [json |-> x]

\* ''.join(chunks)
RECURSIVE Join(_)
Join(chunks) ==
    IF chunks = <<>> THEN "" ELSE Head(chunks) \o Join(Tail(chunks))

\* ------------------------------------------------------------ the messages
SystemMsg == [role |-> "system", content |-> "SYSTEM_PROMPT"]
UserMsg == [role |-> "user", content |-> "PROMPT"]
SeedMessages == <<SystemMsg, UserMsg>>

\* Mutant: the tool message is linked to a made-up id, not the call's.
ToolMsg_WrongId(id, content) ==
    [role |-> "tool", tool_call_id |-> "call_" \o id, content |-> content]

ToolMsg(id, content) ==
    [role |-> "tool", tool_call_id |-> id, content |-> content]

\* ---------------------------------------------------------------- events
StartEvent ==
    [type |-> "start", model |-> "deepseek-chat",
     reasoning |-> IF thinking THEN "enabled" ELSE "disabled"]
ReasoningEvent(c) == [type |-> "reasoning", content |-> c]
MessageEvent(c) == [type |-> "message", content |-> c]
\* Mutant: the calls are numbered through the whole run.
ToolCallEvent_RunningIndex(tc, idx, total) ==
    [type |-> "tool_call", id |-> tc.id, name |-> tc.name,
     arguments |-> json_loads(OrEmptyObject(tc.arguments)),
     index |-> stats.tool_calls + 1, total |-> total]

ToolCallEvent(tc, idx, total) ==
    [type |-> "tool_call", id |-> tc.id, name |-> tc.name,
     arguments |-> json_loads(OrEmptyObject(tc.arguments)),
     index |-> idx, total |-> total]
ToolResultOk(tc, result) ==
    [type |-> "tool_result", tool_call_id |-> tc.id, name |-> tc.name,
     success |-> TRUE, result |-> result]
ToolResultErr(tc, err) ==
    [type |-> "tool_result", tool_call_id |-> tc.id, name |-> tc.name,
     success |-> FALSE, error |-> err]
LengthErrorEvent == [type |-> "error", finish_reason |-> "length"]
EndEvent(reason, st) == [type |-> "end", finish_reason |-> reason, stats |-> st]
\* chat_endpoint.generate's except branch
EndpointErrorEvent(e) == [type |-> "error", error |-> e]

InitStats ==
    [tool_calls |-> 0, tool_results |-> 0,
     tokens |-> [prompt |-> 0, completion |-> 0, total |-> 0]]

Sentinel == "TOOL_BUDGET_EXHAUSTED"

\* chat_sync_endpoint has not answered
NoReply == [status |-> 0]

\* ------------------------------------------------- the model endpoint's output
\* One streamed tool-call delta.
Delta(idx, id, name, args) ==
    [index |-> idx, id |-> id, name |-> name, arguments |-> args]

\* One streamed chunk: choices[0].delta
Chunk(r, c, tcs) == [reasoning_content |-> r, content |-> c, tool_calls |-> tcs]

ChunkSet ==
    { Chunk("r", None, <<>>),
      Chunk(None, "t", <<>>),
      Chunk("r", "t", <<>>),
      Chunk(None, None, <<Delta(0, "a", "quote", "")>>),
      Chunk(None, None, <<Delta(1, "b", "hist", "{")>>),
      Chunk(None, None, <<Delta(1, "", "", "}"), Delta(0, "c", "", "")>>) }

\* usage of the last chunk, when the endpoint reports one
NoUsage == [reported |-> FALSE]
UsageSet ==
    { NoUsage,
      [reported |-> TRUE, prompt_tokens |-> 1, completion_tokens |-> 2,
       total_tokens |-> 3] }

\* A tool call of a non-streamed response
ToolCallSet ==
    { [id |-> "a", name |-> "quote", arguments |-> ""],
      [id |-> "b", name |-> "hist", arguments |-> "{}"],
      [id |-> "b", name |-> "hist", arguments |-> "{"] }

RECURSIVE SeqsUpTo(_, _)
SeqsUpTo(S, n) ==
    IF n = 0 THEN {<<>>}
    ELSE LET shorter == SeqsUpTo(S, n - 1)
         IN shorter \cup {Append(s, x) : s \in shorter, x \in S}

\* resp.choices[0].message of a non-streamed response
SyncResponses ==
    { [role |-> "assistant", content |-> IF tcs = <<>> THEN "t" ELSE None,
       tool_calls |-> tcs] : tcs \in SeqsUpTo(ToolCallSet, MaxCalls) }

\* ---------------------------------------------------------- data_provider.py
\* The threads that call the provider
Callers == 1..NumCallers

\* self._snapshot_cache: None, or the DataFrame the n-th upstream call returned
NoFrame == [held |-> FALSE]
Frame(n) == [held |-> TRUE, id |-> n]

\* The exception the n-th upstream call raises
Error(n) == [exc |-> "ConnectionError", call |-> n]
NoError == [exc |-> None]

\* time.time() when the provider is constructed: _snapshot_cache_ts = 0.0 lies
\* further back than any ttl
Epoch == MaxTtl + 1

\* AkshareProvider.__init__, lines 47-56, and callers that have called nothing
Constructed(ttl, retries, base, factor, jitter) ==
    /\ snapshot_ttl_sec = ttl
    /\ max_retries = retries
    /\ base_delay_sec = base
    /\ backoff = factor
    /\ jitter_sec = jitter
    /\ snapshot_cache = NoFrame
    /\ snapshot_cache_ts = 0
    /\ clock = Epoch
    /\ ppc = [c \in Callers |-> "idle"]
    /\ now = [c \in Callers |-> 0]
    /\ attempt = [c \in Callers |-> 0]
    /\ last_err = [c \in Callers |-> NoError]
    /\ df = [c \in Callers |-> NoFrame]
    /\ tried = [c \in Callers |-> <<>>]
    /\ slept = [c \in Callers |-> <<>>]
    /\ log = <<>>
    /\ opsStarted = 0
    /\ upstreamCalls = 0

\* resolve_symbol has not been called
NoResult == [status |-> "none"]

ResolverOff ==
    /\ market = <<>>
    /\ amount_col = TRUE
    /\ query = <<>>
    /\ topn = 1
    /\ rpc = "idle"
    /\ resolved = NoResult

\* A provider nobody calls (the orchestrator reaches it only through the MCP
\* gateway, whose replies GatewayReplies stands for)
ProviderOff == Constructed(1, 1, 1, 1, 0)

\* ------------------------------------------------------------------- Init
Init ==
    /\ mode \in {"stream", "sync"}
    /\ thinking \in BOOLEAN
    /\ mcp_max_call \in 0..MaxRounds
    /\ pc = "start"
    /\ call_round = 0
    /\ messages = <<>>
    /\ events = <<>>
    /\ content_chunks = <<>>
    /\ reasoning_chunks = <<>>
    /\ tool_calls_dict = EmptyDict
    /\ last_chunk = None
    /\ tool_calls_list = <<>>
    /\ i = 0
    /\ stats = InitStats
    /\ raised = None
    /\ reply = NoReply
    /\ modelCalls = 0
    /\ invoked = <<>>
    /\ toolRounds = 0
    /\ upstreamFailure = None
    /\ chunksUsed = 0
    /\ reportedTokens = [prompt |-> 0, completion |-> 0]
    /\ deltas = <<>>
    /\ ProviderOff
    /\ ResolverOff

\* An exception e leaves the orchestrator.  In streaming mode it reaches
\* chat_endpoint.generate, whose except branch yields one error event and ends
\* the stream; in non-streaming mode chat_sync_endpoint answers 500.
Raise(e, evs) ==
    /\ raised' = e
    /\ upstreamFailure' =
         IF e \in {"tool_list", "model"} THEN e ELSE upstreamFailure
    /\ pc' = "done"
    /\ IF mode = "stream"
       THEN /\ events' = Append(evs, EndpointErrorEvent(e))
            /\ reply' = reply
       ELSE /\ events' = evs
            /\ reply' = [status |-> 500, success |-> FALSE, error |-> e]

\* Mutant: a failed tool listing is ignored and the run starts without tools.
ListTools_IgnoreFailure ==
    /\ UNCHANGED <<provVars, resVars>>
    /\ pc = "start"
    /\ \E gw \in GatewayReplies :
         upstreamFailure' =
           IF tool_list(gw).raised THEN "tool_list" ELSE upstreamFailure
    /\ messages' = SeedMessages
    /\ pc' = "loop"
    /\ UNCHANGED <<mode, thinking, mcp_max_call, call_round, events,
                   content_chunks, reasoning_chunks, tool_calls_dict,
                   last_chunk, tool_calls_list, i, stats, raised, reply,
                   modelCalls, invoked, toolRounds, chunksUsed,
                   reportedTokens, deltas>>

\* ------------------------------------------------- _chat_stream, lines 10-21
\* The first next() of the generator: tool_list(), then the seeded conversation.
\* _chat_non_stream (lines 218-229) starts the same way.
ListTools ==
    /\ UNCHANGED <<provVars, resVars>>
    /\ pc = "start"
    /\ \E gw \in GatewayReplies :
         LET r == tool_list(gw) IN
         IF r.raised
         THEN /\ Raise("tool_list", events)
              /\ UNCHANGED messages
         ELSE /\ messages' = SeedMessages
              /\ pc' = "loop"
              /\ UNCHANGED <<events, raised, reply, upstreamFailure>>
    /\ UNCHANGED <<mode, thinking, mcp_max_call, call_round, content_chunks,
                   reasoning_chunks, tool_calls_dict, last_chunk,
                   tool_calls_list, i, stats, modelCalls, invoked, toolRounds,
                   chunksUsed,
                   reportedTokens, deltas>>

\* Mutant: the start event is yielded in every round.
StartEvents_EveryRound(round) == <<StartEvent>>

\* lines 43-49: the start event is yielded in round 0 only
StartEvents(round) == IF round = 0 THEN <<StartEvent>> ELSE <<>>

\* ------------------------------------------------ _chat_stream, lines 33-55
\* One iteration of the round loop begins: the model call, the start event of
\* round 0 and the reset of the per-response accumulators.
StreamModelCall ==
    /\ UNCHANGED <<provVars, resVars>>
    /\ pc = "loop"
    /\ mode = "stream"
    /\ call_round < mcp_max_call
    /\ modelCalls' = modelCalls + 1
    /\ \E ok \in BOOLEAN :
         IF ok
         THEN /\ events' = events \o StartEvents(call_round)
              /\ content_chunks' = <<>>
              /\ reasoning_chunks' = <<>>
              /\ tool_calls_dict' = EmptyDict
              /\ last_chunk' = None
              /\ deltas' = <<>>
              /\ pc' = "stream"
              /\ UNCHANGED <<raised, reply, upstreamFailure>>
         ELSE /\ Raise("model", events)
              /\ UNCHANGED <<content_chunks, reasoning_chunks,
                             tool_calls_dict, last_chunk, deltas>>
    /\ UNCHANGED <<mode, thinking, mcp_max_call, call_round, messages,
                   tool_calls_list, i, stats, invoked, toolRounds, chunksUsed,
                   reportedTokens>>

\* Python truthiness of an optional string
Truthy(s) == s # None /\ s # ""

\* Mutant: an id or name, once set, is kept.
MergeDelta_KeepFirst(d, td) ==
    LET old == IF td.index \in DOMAIN d
               THEN d[td.index]
               ELSE [id |-> "", name |-> "", arguments |-> ""]
        new == [id |-> IF Truthy(old.id) THEN old.id ELSE td.id,
                name |-> IF Truthy(old.name) THEN old.name ELSE td.name,
                arguments |-> IF Truthy(td.arguments)
                              THEN old.arguments \o td.arguments
                              ELSE old.arguments]
    IN [k \in DOMAIN d \cup {td.index} |-> IF k = td.index THEN new ELSE d[k]]

\* lines 80-93: one tool-call delta merged into tool_calls_dict
MergeDelta(d, td) ==
    LET old == IF td.index \in DOMAIN d
               THEN d[td.index]
               ELSE [id |-> "", name |-> "", arguments |-> ""]
        new == [id |-> IF Truthy(td.id) THEN td.id ELSE old.id,
                name |-> IF Truthy(td.name) THEN td.name ELSE old.name,
                arguments |-> IF Truthy(td.arguments)
                              THEN old.arguments \o td.arguments
                              ELSE old.arguments]
    IN [k \in DOMAIN d \cup {td.index} |-> IF k = td.index THEN new ELSE d[k]]

\* lines 78-79: for tc_delta in delta.tool_calls
RECURSIVE MergeDeltas(_, _)
MergeDeltas(d, tds) ==
    IF tds = <<>> THEN d ELSE MergeDeltas(MergeDelta(d, Head(tds)), Tail(tds))

\* Mutant: a message event for every chunk, whether it has content or not.
ChunkEvents_NoTruthCheck(ch) ==
    (IF Truthy(ch.reasoning_content)
     THEN <<ReasoningEvent(ch.reasoning_content)>> ELSE <<>>)
    \o <<MessageEvent(ch.content)>>

\* lines 66-75: the events one chunk yields, reasoning before message
ChunkEvents(ch) ==
    (IF Truthy(ch.reasoning_content)
     THEN <<ReasoningEvent(ch.reasoning_content)>> ELSE <<>>)
    \o (IF Truthy(ch.content) THEN <<MessageEvent(ch.content)>> ELSE <<>>)

\* ------------------------------------------------ _chat_stream, lines 57-93
\* The body of `for chunk in resp` for one chunk.
StreamChunk ==
    /\ UNCHANGED <<provVars, resVars>>
    /\ pc = "stream"
    /\ chunksUsed < MaxChunks
    /\ \E ch \in ChunkSet :
         /\ last_chunk' = "chunk"
         /\ reasoning_chunks' =
              IF Truthy(ch.reasoning_content)
              THEN Append(reasoning_chunks, ch.reasoning_content)
              ELSE reasoning_chunks
         /\ content_chunks' =
              IF Truthy(ch.content)
              THEN Append(content_chunks, ch.content) ELSE content_chunks
         /\ events' = events \o ChunkEvents(ch)
         /\ tool_calls_dict' = MergeDeltas(tool_calls_dict, ch.tool_calls)
         /\ deltas' = deltas \o ch.tool_calls
    /\ chunksUsed' = chunksUsed + 1
    /\ UNCHANGED <<mode, thinking, mcp_max_call, pc, call_round, messages,
                   tool_calls_list, i, stats, raised, reply, modelCalls,
                   invoked, toolRounds, upstreamFailure, reportedTokens>>

\* Mutant: a broken response stream is swallowed and the loop goes on to the
\* next round.
StreamFail_Swallow ==
    /\ UNCHANGED <<provVars, resVars>>
    /\ pc = "stream"
    /\ upstreamFailure' = "model"
    /\ pc' = "loop"
    /\ call_round' = call_round + 1
    /\ UNCHANGED <<mode, thinking, mcp_max_call, messages, events,
                   content_chunks, reasoning_chunks, tool_calls_dict,
                   last_chunk, tool_calls_list, i, stats, raised, reply,
                   modelCalls, invoked, toolRounds, chunksUsed,
                   reportedTokens, deltas>>

\* The response stream breaks while it is read: the model call has failed.
StreamFail ==
    /\ UNCHANGED <<provVars, resVars>>
    /\ pc = "stream"
    /\ Raise("model", events)
    /\ UNCHANGED <<mode, thinking, mcp_max_call, call_round, messages,
                   content_chunks, reasoning_chunks, tool_calls_dict,
                   last_chunk, tool_calls_list, i, stats, modelCalls, invoked,
                   toolRounds, chunksUsed,
                   reportedTokens, deltas>>

\* lines 95-100: the token counts of the last chunk replace those of stats
TokensAfter(tokens, usage) ==
    IF ~usage.reported THEN tokens
    ELSE [prompt |-> usage.prompt_tokens,
          completion |-> usage.completion_tokens,
          total |-> usage.total_tokens]

\* history: what the model has reported so far, summed over the rounds
ReportedAfter(sum, usage) ==
    IF ~usage.reported THEN sum
    ELSE [prompt |-> sum.prompt + usage.prompt_tokens,
          completion |-> sum.completion + usage.completion_tokens]

\* Mutant: the keys in descending order.
RECURSIVE SortedKeys_Desc(_)
SortedKeys_Desc(S) ==
    IF S = {} THEN <<>>
    ELSE LET m == CHOOSE x \in S : \A y \in S : x >= y
         IN <<m>> \o SortedKeys_Desc(S \ {m})

\* sorted(tool_calls_dict.keys())
RECURSIVE SortedKeys(_)
SortedKeys(S) ==
    IF S = {} THEN <<>>
    ELSE LET m == CHOOSE x \in S : \A y \in S : x <= y
         IN <<m>> \o SortedKeys(S \ {m})

\* lines 117-127
ToolCallsList(d) ==
    LET ks == SortedKeys(DOMAIN d)
    IN [n \in 1..Len(ks) |->
          [id |-> d[ks[n]].id, type |-> "function", name |-> d[ks[n]].name,
           arguments |-> d[ks[n]].arguments]]

\* lines 130-137
AssistantMsg(content, tcs, reasoning) ==
    LET full == Join(content)
        base == [role |-> "assistant",
                 content |-> IF full = "" THEN None ELSE full,
                 tool_calls |-> tcs]
    IN IF thinking
       THEN [f \in DOMAIN base \cup {"reasoning_content"} |->
               IF f = "reasoning_content" THEN Join(reasoning) ELSE base[f]]
       ELSE base

\* ----------------------------------------------- _chat_stream, lines 95-139
\* The response stream is exhausted: usage, then either the final answer or
\* the assistant message that opens the tool phase of the round.
StreamEnd ==
    /\ UNCHANGED <<provVars, resVars>>
    /\ pc = "stream"
    /\ \E usage \in UsageSet :
         /\ last_chunk = None => ~usage.reported
         /\ reportedTokens' = ReportedAfter(reportedTokens, usage)
         /\ LET st == [stats EXCEPT !.tokens = TokensAfter(@, usage)] IN
            /\ stats' = st
            /\ IF DOMAIN tool_calls_dict = {}
               THEN /\ events' = Append(events, EndEvent("stop", st))
                    /\ pc' = "done"
                    /\ UNCHANGED <<messages, tool_calls_list, i, toolRounds>>
               ELSE /\ tool_calls_list' = ToolCallsList(tool_calls_dict)
                    /\ messages' =
                         Append(messages,
                                AssistantMsg(content_chunks,
                                             ToolCallsList(tool_calls_dict),
                                             reasoning_chunks))
                    /\ i' = 1
                    /\ toolRounds' = toolRounds + 1
                    /\ pc' = "tools"
                    /\ UNCHANGED events
    /\ UNCHANGED <<mode, thinking, mcp_max_call, call_round, content_chunks,
                   reasoning_chunks, tool_calls_dict, last_chunk, raised,
                   reply, modelCalls, invoked, upstreamFailure, chunksUsed,
                   deltas>>


\* Mutant: arguments that do not parse end the stream with an end event.
ToolBegin_EndsStream ==
    /\ UNCHANGED <<provVars, resVars>>
    /\ pc = "tools"
    /\ mode = "stream"
    /\ LET tc == tool_calls_list[i] IN
       IF JsonValid(OrEmptyObject(tc.arguments))
       THEN /\ stats' = [stats EXCEPT !.tool_calls = @ + 1]
            /\ events' = Append(events,
                                ToolCallEvent(tc, i, Len(tool_calls_list)))
            /\ pc' = "exec"
            /\ UNCHANGED <<raised, reply, upstreamFailure>>
       ELSE /\ Raise("json", Append(events, EndEvent("stop", stats)))
            /\ UNCHANGED stats
    /\ UNCHANGED <<mode, thinking, mcp_max_call, call_round, messages,
                   content_chunks, reasoning_chunks, tool_calls_dict,
                   last_chunk, tool_calls_list, i, modelCalls, invoked,
                   toolRounds, chunksUsed,
                   reportedTokens, deltas>>

\* --------------------------------------------- _chat_stream, lines 142-159
\* The head of one iteration of the tool loop: the arguments are parsed (not
\* inside the try), the call is counted and its tool_call event is yielded.
ToolBegin ==
    /\ UNCHANGED <<provVars, resVars>>
    /\ pc = "tools"
    /\ mode = "stream"
    /\ LET tc == tool_calls_list[i] IN
       IF JsonValid(OrEmptyObject(tc.arguments))
       THEN /\ stats' = [stats EXCEPT !.tool_calls = @ + 1]
            /\ events' = Append(events,
                                ToolCallEvent(tc, i, Len(tool_calls_list)))
            /\ pc' = "exec"
            /\ UNCHANGED <<raised, reply, upstreamFailure>>
       ELSE /\ Raise("json", events)
            /\ UNCHANGED stats
    /\ UNCHANGED <<mode, thinking, mcp_max_call, call_round, messages,
                   content_chunks, reasoning_chunks, tool_calls_dict,
                   last_chunk, tool_calls_list, i, modelCalls, invoked,
                   toolRounds, chunksUsed,
                   reportedTokens, deltas>>

\* One tools/call request as the gateway saw it, with the round it was sent
\* in and what the remote endpoint answered
Invocation(tc, gw) ==
    [round |-> call_round, name |-> tc.name,
     arguments |-> json_loads(OrEmptyObject(tc.arguments)), reply |-> gw]

\* Mutant: the tool loop is left after its first iteration (a stray break).
AfterTool_Break ==
    /\ i' = i
    /\ pc' = "loop"
    /\ call_round' = call_round + 1

\* lines 142 and 200-201: the tool loop moves on, or the round is over
AfterTool ==
    IF i < Len(tool_calls_list)
    THEN /\ i' = i + 1
         /\ pc' = "tools"
         /\ UNCHANGED call_round
    ELSE /\ i' = i
         /\ pc' = "loop"
         /\ call_round' = call_round + 1

\* Mutant: the tool message overwrites the last message of the conversation.
StreamToolOk_Replace(tc, r) ==
    /\ events' = Append(events, ToolResultOk(tc, r.data))
    /\ messages' =
         [messages EXCEPT ![Len(messages)] = ToolMsg(tc.id, json_dumps(r.data))]

\* Mutant: the tool message carries the result itself, not its JSON text.
StreamToolOk_RawContent(tc, r) ==
    /\ events' = Append(events, ToolResultOk(tc, r.data))
    /\ messages' = Append(messages, ToolMsg(tc.id, r.data))

\* lines 163-181: the try body of a call the gateway answered
StreamToolOk(tc, r) ==
    /\ events' = Append(events, ToolResultOk(tc, r.data))
    /\ messages' = Append(messages, ToolMsg(tc.id, json_dumps(r.data)))

\* Mutant: the except branch reports the failure but appends no tool message.
StreamToolErr_NoAppend(tc, r) ==
    /\ events' = Append(events, ToolResultErr(tc, r.err))
    /\ messages' = messages

\* lines 182-198: the except branch
StreamToolErr(tc, r) ==
    /\ events' = Append(events, ToolResultErr(tc, r.err))
    /\ messages' =
         Append(messages, ToolMsg(tc.id, json_dumps([error |-> r.err])))

\* Mutant: a call the gateway failed is not counted as a result.
ToolExec_FailuresUncounted ==
    /\ UNCHANGED <<provVars, resVars>>
    /\ pc = "exec"
    /\ \E gw \in GatewayReplies :
         LET tc == tool_calls_list[i]
             r == tool_call(gw)
         IN /\ invoked' = Append(invoked, Invocation(tc, gw))
            /\ stats' = IF r.raised THEN stats
                        ELSE [stats EXCEPT !.tool_results = @ + 1]
            /\ IF r.raised THEN StreamToolErr(tc, r) ELSE StreamToolOk(tc, r)
            /\ AfterTool
    /\ UNCHANGED <<mode, thinking, mcp_max_call, content_chunks,
                   reasoning_chunks, tool_calls_dict, last_chunk,
                   tool_calls_list, raised, reply, modelCalls, toolRounds,
                   upstreamFailure, chunksUsed,
                   reportedTokens, deltas>>

\* --------------------------------------------- _chat_stream, lines 161-201
\* The generator is resumed after the tool_call event: the gateway is invoked
\* and its outcome, success or failure, is yielded and appended.
ToolExec ==
    /\ UNCHANGED <<provVars, resVars>>
    /\ pc = "exec"
    /\ \E gw \in GatewayReplies :
         LET tc == tool_calls_list[i]
             r == tool_call(gw)
         IN /\ invoked' = Append(invoked, Invocation(tc, gw))
            /\ stats' = [stats EXCEPT !.tool_results = @ + 1]
            /\ IF r.raised THEN StreamToolErr(tc, r) ELSE StreamToolOk(tc, r)
            /\ AfterTool
    /\ UNCHANGED <<mode, thinking, mcp_max_call, content_chunks,
                   reasoning_chunks, tool_calls_dict, last_chunk,
                   tool_calls_list, raised, reply, modelCalls, toolRounds,
                   upstreamFailure, chunksUsed,
                   reportedTokens, deltas>>

\* --------------------------------------------- _chat_stream, lines 203-215
\* The round loop ran out: error, then end(length).
StreamRoundLimit ==
    /\ UNCHANGED <<provVars, resVars>>
    /\ pc = "loop"
    /\ mode = "stream"
    /\ call_round >= mcp_max_call
    /\ events' = events \o <<LengthErrorEvent, EndEvent("length", stats)>>
    /\ pc' = "done"
    /\ UNCHANGED <<mode, thinking, mcp_max_call, call_round, messages,
                   content_chunks, reasoning_chunks, tool_calls_dict,
                   last_chunk, tool_calls_list, i, stats, raised, reply,
                   modelCalls, invoked, toolRounds, upstreamFailure,
                   chunksUsed,
                   reportedTokens, deltas>>

\* chat_sync_endpoint, lines 59-61: the run returned
Returned(result) == [status |-> 200, success |-> TRUE, result |-> result]

\* ------------------------------------------ _chat_non_stream, lines 231-248
SyncModelCall ==
    /\ UNCHANGED <<provVars, resVars>>
    /\ pc = "loop"
    /\ mode = "sync"
    /\ call_round < mcp_max_call
    /\ modelCalls' = modelCalls + 1
    /\ \/ /\ Raise("model", events)
          /\ UNCHANGED <<messages, tool_calls_list, i, toolRounds>>
       \/ \E msg \in SyncResponses :
            IF msg.tool_calls = <<>>
            THEN /\ reply' = Returned(msg.content)
                 /\ pc' = "done"
                 /\ UNCHANGED <<messages, tool_calls_list, i, toolRounds,
                                events, raised, upstreamFailure>>
            ELSE /\ messages' = Append(messages, msg)
                 /\ tool_calls_list' = msg.tool_calls
                 /\ i' = 1
                 /\ toolRounds' = toolRounds + 1
                 /\ pc' = "tools"
                 /\ UNCHANGED <<events, raised, reply, upstreamFailure>>
    /\ UNCHANGED <<mode, thinking, mcp_max_call, call_round, content_chunks,
                   reasoning_chunks, tool_calls_dict, last_chunk, stats,
                   invoked, chunksUsed,
                   reportedTokens, deltas>>

\* ------------------------------------------ _chat_non_stream, lines 250-263
\* One iteration of the tool loop: nothing here is inside a try.
SyncTool ==
    /\ UNCHANGED <<provVars, resVars>>
    /\ pc = "tools"
    /\ mode = "sync"
    /\ LET tc == tool_calls_list[i] IN
       IF ~JsonValid(OrEmptyObject(tc.arguments))
       THEN /\ Raise("json", events)
            /\ UNCHANGED <<messages, invoked, i, call_round>>
       ELSE \E gw \in GatewayReplies :
                 LET r == tool_call(gw) IN
                 /\ invoked' = Append(invoked, Invocation(tc, gw))
                 /\ IF r.raised
                    THEN /\ Raise(r.err, events)
                         /\ UNCHANGED <<messages, i, call_round>>
                    ELSE /\ messages' =
                              Append(messages,
                                     ToolMsg(tc.id, json_dumps(r.data)))
                         /\ AfterTool
                         /\ UNCHANGED <<events, raised, reply,
                                        upstreamFailure>>
    /\ UNCHANGED <<mode, thinking, mcp_max_call, content_chunks,
                   reasoning_chunks, tool_calls_dict, last_chunk,
                   tool_calls_list, stats, modelCalls, toolRounds, chunksUsed,
                   reportedTokens, deltas>>

\* ------------------------------------------------ _chat_non_stream, line 265
SyncRoundLimit ==
    /\ UNCHANGED <<provVars, resVars>>
    /\ pc = "loop"
    /\ mode = "sync"
    /\ call_round >= mcp_max_call
    /\ reply' = Returned(Sentinel)
    /\ pc' = "done"
    /\ UNCHANGED <<mode, thinking, mcp_max_call, call_round, messages, events,
                   content_chunks, reasoning_chunks, tool_calls_dict,
                   last_chunk, tool_calls_list, i, stats, raised, modelCalls,
                   invoked, toolRounds, upstreamFailure, chunksUsed,
                   reportedTokens, deltas>>

Next ==
    \/ ListTools
    \/ StreamModelCall
    \/ StreamChunk
    \/ StreamFail
    \/ StreamEnd
    \/ ToolBegin
    \/ ToolExec
    \/ StreamRoundLimit
    \/ SyncModelCall
    \/ SyncTool
    \/ SyncRoundLimit

Spec == Init /\ [][Next]_vars

\* ======================================================================
\* data_provider.py: AkshareProvider
\* ======================================================================
\* backoff ** attempt
RECURSIVE Pow(_, _)
Pow(b, e) == IF e = 0 THEN 1 ELSE b * Pow(b, e - 1)

\* Mutant: the jitter scales the delay instead of being added to it.
delay_Multiplicative(a, base, factor, jitter) ==
    base * Pow(factor, a) * (1 + jitter * (a + 1))

\* _sleep_with_backoff, lines 76-77
delay(a, base, factor, jitter) == base * Pow(factor, a) + jitter * (a + 1)

\* history: one completed operation of caller c
Entry(op, c, t, outcome, value, stamp, cause) ==
    [op |-> op, caller |-> c, now |-> t, outcome |-> outcome,
     value |-> value, stamp |-> stamp, cause |-> cause,
     tried |-> tried[c], slept |-> slept[c]]

\* Mutant: any held entry counts as fresh.
CacheHit_NoTtl(t) == snapshot_cache # NoFrame

\* Mutant: an entry exactly ttl old no longer counts as fresh.
CacheHit_Strict(t) ==
    /\ snapshot_cache # NoFrame
    /\ t - snapshot_cache_ts < snapshot_ttl_sec

\* line 108: the condition of the cache hit, for a caller whose now is t
CacheHit(t) ==
    /\ snapshot_cache # NoFrame
    /\ t - snapshot_cache_ts <= snapshot_ttl_sec

\* ----------------------------------------------- _get_spot_df, lines 105-115
\* The call is entered: now is read, then either the cached entry is returned
\* or _call_with_retry is entered (lines 84-85).
get_spot_df(c) ==
    /\ ppc[c] = "idle"
    /\ opsStarted < MaxOps
    /\ opsStarted' = opsStarted + 1
    /\ now' = [now EXCEPT ![c] = clock]
    /\ tried' = [tried EXCEPT ![c] = <<>>]
    /\ slept' = [slept EXCEPT ![c] = <<>>]
    /\ IF CacheHit(clock)
       THEN /\ log' = Append(log,
                       [Entry("get", c, clock, "hit", snapshot_cache,
                              snapshot_cache_ts, NoError)
                        EXCEPT !.tried = <<>>, !.slept = <<>>])
            /\ UNCHANGED <<ppc, attempt, last_err>>
       ELSE /\ ppc' = [ppc EXCEPT ![c] = "loop"]
            /\ attempt' = [attempt EXCEPT ![c] = 0]
            /\ last_err' = [last_err EXCEPT ![c] = NoError]
            /\ UNCHANGED log
    /\ UNCHANGED <<snapshot_ttl_sec, max_retries, base_delay_sec, backoff,
                   jitter_sec, snapshot_cache, snapshot_cache_ts, clock, df,
                   upstreamCalls>>
    /\ UNCHANGED orchVars

\* --------------------------------------------- _call_with_retry, lines 85-87
\* The loop has an attempt left: fn() is called.
call_fn(c) ==
    /\ ppc[c] = "loop"
    /\ attempt[c] < max_retries
    /\ upstreamCalls' = upstreamCalls + 1
    /\ ppc' = [ppc EXCEPT ![c] = "calling"]
    /\ UNCHANGED <<snapshot_ttl_sec, max_retries, base_delay_sec, backoff,
                   jitter_sec, snapshot_cache, snapshot_cache_ts, clock, now,
                   attempt, last_err, df, tried, slept, log, opsStarted>>
    /\ UNCHANGED <<orchVars, resVars>>

\* Mutant: the value is dropped and the loop goes on to the next attempt.
fn_returns_RetryAnyway(c) ==
    /\ ppc[c] = "calling"
    /\ tried' = [tried EXCEPT ![c] =
                   Append(@, [ok |-> TRUE, value |-> Frame(clock),
                              err |-> NoError])]
    /\ attempt' = [attempt EXCEPT ![c] = @ + 1]
    /\ ppc' = [ppc EXCEPT ![c] = "loop"]
    /\ UNCHANGED <<snapshot_ttl_sec, max_retries, base_delay_sec, backoff,
                   jitter_sec, snapshot_cache, snapshot_cache_ts, clock, now,
                   last_err, df, slept, log, opsStarted, upstreamCalls>>
    /\ UNCHANGED <<orchVars, resVars>>

\* line 87 and lines 115-116: fn() returns the snapshot as of this moment;
\* _call_with_retry returns it and _get_spot_df copies it into df.
fn_returns(c) ==
    /\ ppc[c] = "calling"
    /\ tried' = [tried EXCEPT ![c] =
                   Append(@, [ok |-> TRUE, value |-> Frame(clock),
                              err |-> NoError])]
    /\ df' = [df EXCEPT ![c] = Frame(clock)]
    /\ ppc' = [ppc EXCEPT ![c] = "store"]
    /\ UNCHANGED <<snapshot_ttl_sec, max_retries, base_delay_sec, backoff,
                   jitter_sec, snapshot_cache, snapshot_cache_ts, clock, now,
                   attempt, last_err, slept, log, opsStarted, upstreamCalls>>
    /\ UNCHANGED <<orchVars, resVars>>

\* Mutant: last_err keeps the first error.
fn_raises_KeepFirst(c) ==
    /\ ppc[c] = "calling"
    /\ LET e == Error(upstreamCalls) IN
         /\ last_err' = [last_err EXCEPT ![c] = IF @ = NoError THEN e ELSE @]
         /\ tried' = [tried EXCEPT ![c] =
                        Append(@, [ok |-> FALSE, value |-> NoFrame,
                                   err |-> e])]
    /\ IF attempt[c] < max_retries - 1
       THEN /\ ppc' = [ppc EXCEPT ![c] = "sleep"]
            /\ UNCHANGED attempt
       ELSE /\ ppc' = [ppc EXCEPT ![c] = "loop"]
            /\ attempt' = [attempt EXCEPT ![c] = @ + 1]
    /\ UNCHANGED <<snapshot_ttl_sec, max_retries, base_delay_sec, backoff,
                   jitter_sec, snapshot_cache, snapshot_cache_ts, clock, now,
                   df, slept, log, opsStarted, upstreamCalls>>
    /\ UNCHANGED <<orchVars, resVars>>

\* Mutant: the backoff sleep follows every failure, the last one included.
fn_raises_AlwaysSleep(c) ==
    /\ ppc[c] = "calling"
    /\ LET e == Error(upstreamCalls) IN
         /\ last_err' = [last_err EXCEPT ![c] = e]
         /\ tried' = [tried EXCEPT ![c] =
                        Append(@, [ok |-> FALSE, value |-> NoFrame,
                                   err |-> e])]
    /\ ppc' = [ppc EXCEPT ![c] = "sleep"]
    /\ UNCHANGED <<snapshot_ttl_sec, max_retries, base_delay_sec, backoff,
                   jitter_sec, snapshot_cache, snapshot_cache_ts, clock, now,
                   attempt, df, slept, log, opsStarted, upstreamCalls>>
    /\ UNCHANGED <<orchVars, resVars>>

\* lines 88-92: fn() raises e; it becomes last_err, and unless this was the
\* last attempt the backoff sleep comes next.
fn_raises(c) ==
    /\ ppc[c] = "calling"
    /\ LET e == Error(upstreamCalls) IN
         /\ last_err' = [last_err EXCEPT ![c] = e]
         /\ tried' = [tried EXCEPT ![c] =
                        Append(@, [ok |-> FALSE, value |-> NoFrame,
                                   err |-> e])]
    /\ IF attempt[c] < max_retries - 1
       THEN /\ ppc' = [ppc EXCEPT ![c] = "sleep"]
            /\ UNCHANGED attempt
       ELSE /\ ppc' = [ppc EXCEPT ![c] = "loop"]
            /\ attempt' = [attempt EXCEPT ![c] = @ + 1]
    /\ UNCHANGED <<snapshot_ttl_sec, max_retries, base_delay_sec, backoff,
                   jitter_sec, snapshot_cache, snapshot_cache_ts, clock, now,
                   df, slept, log, opsStarted, upstreamCalls>>
    /\ UNCHANGED <<orchVars, resVars>>

\* lines 93-98 and 74-78: time.sleep(delay), then the next attempt.
sleep_with_backoff(c) ==
    /\ ppc[c] = "sleep"
    /\ LET d == delay(attempt[c], base_delay_sec, backoff, jitter_sec) IN
       /\ clock + d <= Epoch + MaxElapsed + MaxSlept
       /\ clock' = clock + d
       /\ slept' = [slept EXCEPT ![c] = Append(@, d)]
    /\ attempt' = [attempt EXCEPT ![c] = @ + 1]
    /\ ppc' = [ppc EXCEPT ![c] = "loop"]
    /\ UNCHANGED <<snapshot_ttl_sec, max_retries, base_delay_sec, backoff,
                   jitter_sec, snapshot_cache, snapshot_cache_ts, now,
                   last_err, df, tried, log, opsStarted, upstreamCalls>>
    /\ UNCHANGED <<orchVars, resVars>>

\* Mutant: the exhausted call empties the slot on its way out.
exhausted_ClearsSlot(c) ==
    /\ ppc[c] = "loop"
    /\ attempt[c] >= max_retries
    /\ snapshot_cache' = NoFrame
    /\ snapshot_cache_ts' = 0
    /\ log' = Append(log, Entry("get", c, now[c], "raised", NoFrame, 0,
                                last_err[c]))
    /\ ppc' = [ppc EXCEPT ![c] = "idle"]
    /\ UNCHANGED <<snapshot_ttl_sec, max_retries, base_delay_sec, backoff,
                   jitter_sec, clock, now, attempt, last_err, df, tried,
                   slept, opsStarted, upstreamCalls>>
    /\ UNCHANGED <<orchVars, resVars>>

\* line 99: the loop is exhausted; RuntimeError ... from last_err leaves
\* _call_with_retry and _get_spot_df.
exhausted(c) ==
    /\ ppc[c] = "loop"
    /\ attempt[c] >= max_retries
    /\ log' = Append(log, Entry("get", c, now[c], "raised", NoFrame, 0,
                                last_err[c]))
    /\ ppc' = [ppc EXCEPT ![c] = "idle"]
    /\ UNCHANGED <<snapshot_ttl_sec, max_retries, base_delay_sec, backoff,
                   jitter_sec, snapshot_cache, snapshot_cache_ts, clock, now,
                   attempt, last_err, df, tried, slept, opsStarted,
                   upstreamCalls>>
    /\ UNCHANGED <<orchVars, resVars>>

\* ----------------------------------------------- _get_spot_df, lines 118-120
store(c) ==
    /\ ppc[c] = "store"
    /\ snapshot_cache' = df[c]
    /\ snapshot_cache_ts' = now[c]
    /\ log' = Append(log, Entry("get", c, now[c], "fetched", df[c], now[c],
                                NoError))
    /\ ppc' = [ppc EXCEPT ![c] = "idle"]
    /\ UNCHANGED <<snapshot_ttl_sec, max_retries, base_delay_sec, backoff,
                   jitter_sec, clock, now, attempt, last_err, df, tried,
                   slept, opsStarted, upstreamCalls>>
    /\ UNCHANGED <<orchVars, resVars>>

\* Mutant: the slot is left as it is.
clear_cache_KeepSlot(c) ==
    /\ ppc[c] = "idle"
    /\ opsStarted < MaxOps
    /\ opsStarted' = opsStarted + 1
    /\ log' = Append(log,
                [Entry("clear", c, clock, "cleared", NoFrame, 0, NoError)
                 EXCEPT !.tried = <<>>, !.slept = <<>>])
    /\ UNCHANGED <<snapshot_ttl_sec, max_retries, base_delay_sec, backoff,
                   jitter_sec, snapshot_cache, snapshot_cache_ts, clock, ppc,
                   now, attempt, last_err, df, tried, slept, upstreamCalls>>
    /\ UNCHANGED <<orchVars, resVars>>

\* ------------------------------------------------- clear_cache, lines 247-249
clear_cache(c) ==
    /\ ppc[c] = "idle"
    /\ opsStarted < MaxOps
    /\ opsStarted' = opsStarted + 1
    /\ snapshot_cache' = NoFrame
    /\ snapshot_cache_ts' = 0
    /\ log' = Append(log,
                [Entry("clear", c, clock, "cleared", NoFrame, 0, NoError)
                 EXCEPT !.tried = <<>>, !.slept = <<>>])
    /\ UNCHANGED <<snapshot_ttl_sec, max_retries, base_delay_sec, backoff,
                   jitter_sec, clock, ppc, now, attempt, last_err, df, tried,
                   slept, upstreamCalls>>
    /\ UNCHANGED <<orchVars, resVars>>

\* time.time() moves on by a second, whatever the callers are doing
Tick ==
    /\ clock < Epoch + MaxElapsed
    /\ clock' = clock + 1
    /\ UNCHANGED <<snapshot_ttl_sec, max_retries, base_delay_sec, backoff,
                   jitter_sec, snapshot_cache, snapshot_cache_ts, ppc, now,
                   attempt, last_err, df, tried, slept, log, opsStarted,
                   upstreamCalls>>
    /\ UNCHANGED <<orchVars, resVars>>

\* The orchestrator is not running
OrchestratorOff ==
    /\ mode = "sync"
    /\ thinking = FALSE
    /\ mcp_max_call = 0
    /\ pc = "off"
    /\ call_round = 0
    /\ messages = <<>>
    /\ events = <<>>
    /\ content_chunks = <<>>
    /\ reasoning_chunks = <<>>
    /\ tool_calls_dict = EmptyDict
    /\ last_chunk = None
    /\ tool_calls_list = <<>>
    /\ i = 0
    /\ stats = InitStats
    /\ raised = None
    /\ reply = NoReply
    /\ modelCalls = 0
    /\ invoked = <<>>
    /\ toolRounds = 0
    /\ upstreamFailure = None
    /\ chunksUsed = 0
    /\ reportedTokens = [prompt |-> 0, completion |-> 0]
    /\ deltas = <<>>

\* Every provider the constructor can build within the bounds
InitProvider ==
    /\ OrchestratorOff
    /\ ResolverOff
    /\ \E ttl \in 1..MaxTtl, retries \in 0..MaxRetries,
          base \in 1..MaxBase, jitter \in 0..1 :
         Constructed(ttl, retries, base, 2, jitter)

\* One thread uses the provider
NextProvider ==
    \/ get_spot_df(1) /\ UNCHANGED resVars
    \/ call_fn(1)
    \/ fn_returns(1)
    \/ fn_raises(1)
    \/ sleep_with_backoff(1)
    \/ exhausted(1)
    \/ store(1)
    \/ clear_cache(1)
    \/ Tick

SpecProvider == InitProvider /\ [][NextProvider]_vars

\* A provider with the default jitter-free schedule, shared by threads
InitConcurrent ==
    /\ OrchestratorOff
    /\ ResolverOff
    /\ \E retries \in 1..MaxRetries : Constructed(MaxTtl, retries, 1, 2, 0)

\* NumCallers threads share the provider
NextConcurrent ==
    \/ \E c \in Callers : get_spot_df(c) /\ UNCHANGED resVars
    \/ \E c \in Callers : call_fn(c)
    \/ \E c \in Callers : fn_returns(c)
    \/ \E c \in Callers : fn_raises(c)
    \/ \E c \in Callers : sleep_with_backoff(c)
    \/ \E c \in Callers : exhausted(c)
    \/ \E c \in Callers : store(c)
    \/ \E c \in Callers : clear_cache(c)
    \/ Tick

SpecConcurrent == InitConcurrent /\ [][NextConcurrent]_vars

\* Every retry schedule the constructor can configure within the bounds: up to
\* MaxRetries + 1 attempts, so that a call sleeps more than once
InitBackoff ==
    /\ OrchestratorOff
    /\ ResolverOff
    /\ \E retries \in 1..(MaxRetries + 1), base \in 1..(MaxBase + 1),
          factor \in 1..MaxFactor, jitter \in 0..MaxJitter :
         Constructed(1, retries, base, factor, jitter)

\* One thread calls _get_spot_df; time passes only in the backoff sleeps
NextBackoff ==
    \/ get_spot_df(1) /\ UNCHANGED resVars
    \/ call_fn(1)
    \/ fn_returns(1)
    \/ fn_raises(1)
    \/ sleep_with_backoff(1)
    \/ exhausted(1)
    \/ store(1)

SpecBackoff == InitBackoff /\ [][NextBackoff]_vars

\* ======================================================================
\* data_provider.py: AkshareProvider.resolve_symbol
\* ======================================================================
\* Strings are sequences of one-character strings.
Digits == {"0", "1", "2", "3", "4", "5", "6", "7", "8", "9"}

\* str.strip()
RECURSIVE lstrip(_)
lstrip(s) == IF s # <<>> /\ Head(s) = " " THEN lstrip(Tail(s)) ELSE s

RECURSIVE rstrip(_)
rstrip(s) ==
    IF s # <<>> /\ s[Len(s)] = " "
    THEN rstrip(SubSeq(s, 1, Len(s) - 1)) ELSE s

strip(s) == rstrip(lstrip(s))

\* _is_code, lines 69-71: re.fullmatch(r"\d{6}", s.strip())
is_code(s) ==
    LET t == strip(s) IN
    /\ Len(t) = 6
    /\ \A j \in DOMAIN t : t[j] \in Digits

\* Series.str.contains(q, na=False), line 150: q is searched as a regular
\* expression, case-sensitively; over this alphabet "." is its only
\* metacharacter and stands for any one character.
contains(name, q) ==
    \E start \in 0..(Len(name) - Len(q)) :
      \A j \in DOMAIN q : q[j] = "." \/ name[start + j] = q[j]

\* The cells of the traded-value column: a number, a numeric string, a string
\* that is no number, or a missing value
Num(v) == [kind |-> "num", v |-> v]
Str(v) == [kind |-> "str", v |-> v]
Bad == [kind |-> "bad", v |-> 0]
NaN == [kind |-> "nan", v |-> 0]

\* pd.to_numeric(..., errors="coerce"), line 160
to_numeric(cell) ==
    IF cell.kind \in {"num", "str"} THEN Num(cell.v) ELSE NaN

Row(code, name, amount) == [code |-> code, name |-> name, amount |-> amount]

\* The instruments the market can list
RowSet ==
    { Row(<<"6", "0", "0", "5", "1", "9">>, <<"a", "b">>, Num(30)),
      Row(<<"0", "0", "0", "0", "0", "1">>, <<"A", "b">>, Str(20)),
      Row(<<"6", "0", "0", "0", "0", "0">>, <<"b">>, Bad),
      Row(<<"0", "0", "0", "0", "0", "2">>, <<"b", "a">>, NaN),
      Row(<<"6", "0", "0", "0", "3", "6">>, <<"a">>, Num(20)) }

\* Snapshots list an instrument once
Markets ==
    { m \in SeqsUpTo(RowSet, MaxRows) :
        \A a, b \in DOMAIN m : a # b => m[a] # m[b] }

\* What a caller can ask for
QuerySet ==
    { <<>>, <<" ">>,
      <<"6", "0", "0", "5", "1", "9">>,
      <<" ", "6", "0", "0", "5", "1", "9", " ">>,
      <<"A">>, <<"b">>, <<".">>, <<"z">> }

\* Mutant: every query is searched in the names.
hit_NameOnly(rows, q) ==
    SelectSeq(rows, LAMBDA r : contains(r.name, q))

\* lines 147-150: the rows the trimmed query q selects
hit(rows, q) ==
    IF is_code(q)
    THEN SelectSeq(rows, LAMBDA r : r.code = q)
    ELSE SelectSeq(rows, LAMBDA r : contains(r.name, q))

\* line 160: the traded-value column converted
coerce(h) == [k \in DOMAIN h |-> [h[k] EXCEPT !.amount = to_numeric(@)]]

\* Mutant: ascending.
sort_values_Asc(h) ==
    LET n == Len(h)
        Perms == {p \in [1..n -> 1..n] : \A a, b \in 1..n : a # b => p[a] # p[b]}
        Sorted(p) ==
          \A a, b \in 1..n :
            a < b =>
              LET x == h[p[a]].amount
                  y == h[p[b]].amount IN
              /\ x.kind = "nan" => (y.kind = "nan" /\ p[a] < p[b])
              /\ (x.kind # "nan" /\ y.kind # "nan") => x.v <= y.v
    IN  { [k \in 1..n |-> h[p[k]]] : p \in {p \in Perms : Sorted(p)} }

\* DataFrame.sort_values(col_amount, ascending=False), line 161: descending,
\* NaN last in their original order; the default sort is not stable, so rows
\* of equal value come in either order.
sort_values(h) ==
    LET n == Len(h)
        Perms == {p \in [1..n -> 1..n] : \A a, b \in 1..n : a # b => p[a] # p[b]}
        Sorted(p) ==
          \A a, b \in 1..n :
            a < b =>
              LET x == h[p[a]].amount
                  y == h[p[b]].amount IN
              /\ x.kind = "nan" => (y.kind = "nan" /\ p[a] < p[b])
              /\ (x.kind # "nan" /\ y.kind # "nan") => x.v >= y.v
    IN  { [k \in 1..n |-> h[p[k]]] : p \in {p \in Perms : Sorted(p)} }

\* DataFrame.head(n), line 162, for n >= 1
head(h, n) == SubSeq(h, 1, IF n < Len(h) THEN n ELSE Len(h))

Resolved(code, name, hit_df) ==
    [status |-> "returned", code |-> code, name |-> name, hit_df |-> hit_df]

Failed(e) == [status |-> "raised", error |-> e]

\* Mutant: the first row of the snapshot stands in when nothing matches.
ResolveOutcomes_Default(rows, has_amount, q0, n) ==
    LET q == strip(q0)
        h == IF hit(rows, q) = <<>> /\ rows # <<>>
             THEN <<rows[1]>> ELSE hit(rows, q)
    IN
    IF h = <<>> THEN {Failed("NoMatch")}
    ELSE IF Len(h) > 1
    THEN { Resolved(head(h2, n)[1].code, head(h2, n)[1].name, head(h2, n)) :
             h2 \in (IF has_amount THEN sort_values(coerce(h)) ELSE {h}) }
    ELSE {Resolved(h[1].code, h[1].name, SubSeq(h, 1, 1))}

\* lines 147-172: what resolve_symbol can answer once it has the snapshot
ResolveOutcomes(rows, has_amount, q0, n) ==
    LET q == strip(q0)
        h == hit(rows, q) IN
    IF h = <<>> THEN {Failed("NoMatch")}
    ELSE IF Len(h) > 1
    THEN { Resolved(head(h2, n)[1].code, head(h2, n)[1].name, head(h2, n)) :
             h2 \in (IF has_amount THEN sort_values(coerce(h)) ELSE {h}) }
    ELSE {Resolved(h[1].code, h[1].name, SubSeq(h, 1, 1))}

\* Mutant: the snapshot is asked for before the query is looked at.
resolve_symbol_FetchFirst ==
    /\ rpc = "idle"
    /\ ppc[1] = "idle"
    /\ \E q \in QuerySet, n \in 1..MaxTopn :
         /\ query' = q
         /\ topn' = n
         /\ get_spot_df(1)
         /\ resolved' = NoResult
         /\ rpc' = "spot"
    /\ UNCHANGED <<market, amount_col>>

\* ----------------------------------------------- resolve_symbol, lines 131-135
\* The query is trimmed; an empty one is refused, otherwise _get_spot_df is
\* entered.
resolve_symbol ==
    /\ rpc = "idle"
    /\ ppc[1] = "idle"
    /\ \E q \in QuerySet, n \in 1..MaxTopn :
         /\ query' = q
         /\ topn' = n
         /\ IF strip(q) = <<>>
            THEN /\ resolved' = Failed("EmptyQuery")
                 /\ rpc' = "idle"
                 /\ UNCHANGED <<provVars, orchVars>>
            ELSE /\ get_spot_df(1)
                 /\ resolved' = NoResult
                 /\ rpc' = "spot"
    /\ UNCHANGED <<market, amount_col>>

\* ----------------------------------------------- resolve_symbol, lines 135-172
\* _get_spot_df has returned the snapshot or raised.
resolve_filter ==
    /\ rpc = "spot"
    /\ ppc[1] = "idle"
    /\ IF log[Len(log)].outcome = "raised"
       THEN resolved' = Failed("FetchExhausted")
       ELSE resolved' \in ResolveOutcomes(market, amount_col, query, topn)
    /\ rpc' = "idle"
    /\ UNCHANGED <<market, amount_col, query, topn>>
    /\ UNCHANGED <<provVars, orchVars>>

\* Every market within the bounds, behind a provider that tries twice and
\* whose one backoff sleep outlasts its ttl; time passes only in that sleep.
InitResolve ==
    /\ OrchestratorOff
    /\ Constructed(1, 2, 2, 2, 0)
    /\ market \in Markets
    /\ amount_col \in BOOLEAN
    /\ query = <<>>
    /\ topn = 1
    /\ rpc = "idle"
    /\ resolved = NoResult

NextResolve ==
    \/ resolve_symbol
    \/ call_fn(1)
    \/ fn_returns(1)
    \/ fn_raises(1)
    \/ sleep_with_backoff(1)
    \/ exhausted(1)
    \/ store(1)
    \/ resolve_filter

SpecResolve == InitResolve /\ [][NextResolve]_vars

\* ======================================================================
\* Properties
\* ======================================================================
Last(s) == s[Len(s)]

OfType(evs, T) == SelectSeq(evs, LAMBDA e : e.type \in T)

Streaming == mode = "stream"

\* The run delivered end(reason) as its last event
EndsWith(reason) ==
    /\ events # <<>>
    /\ Last(events).type = "end"
    /\ Last(events).finish_reason = reason

\* ---------------------------------------------------------------- C1
\* C1: for every max_rounds >= 1 a run issues at most max_rounds model calls,
\* and a run in which the model requested tools in each of max_rounds rounds
\* is over only with end(finish_reason=length) as its last event (streaming)
\* or with the budget-exhausted sentinel as its result (non-streaming).
\* Stated for the model behaviours whose argument payloads all parse.
C1_RoundBudget ==
    (mcp_max_call >= 1 /\ raised # "json") =>
      /\ modelCalls <= mcp_max_call
      /\ (pc = "done" /\ toolRounds = mcp_max_call) =>
            IF Streaming THEN EndsWith("length")
            ELSE reply = Returned(Sentinel)

\* What the code keeps of C1: never more than max_rounds model calls, and a
\* run that raised nothing and saw tools requested in each of max_rounds
\* rounds ends with end(length) or the sentinel.
C1_BoundHolds ==
    /\ modelCalls <= mcp_max_call
    /\ (pc = "done" /\ raised = None /\ toolRounds = mcp_max_call
        /\ mcp_max_call >= 1) =>
          IF Streaming THEN EndsWith("length") ELSE reply = Returned(Sentinel)

\* ---------------------------------------------------------------- C2
\* The tool message a failed call leaves in the conversation
IsFailedToolMsg(m) ==
    /\ m.role = "tool"
    /\ "error" \in DOMAIN m.content.json

\* The number of assistant messages among the first k messages
RECURSIVE AssistantsBefore(_, _)
AssistantsBefore(m, k) ==
    IF k = 0 THEN 0
    ELSE AssistantsBefore(m, k - 1)
         + (IF m[k].role = "assistant" THEN 1 ELSE 0)

\* C2 as stated, on the runs that raise nothing: once a streaming run is over,
\* every failed tool call of round r was followed by the model call of round
\* r+1 (the original claim: "the next model call is still made").
C2_NextModelCallAlwaysMade ==
    (Streaming /\ pc = "done" /\ raised = None) =>
      \A k \in DOMAIN messages :
        IsFailedToolMsg(messages[k]) =>
          modelCalls > AssistantsBefore(messages, k)

\* The step in which the gateway fails for the call in hand
GatewayFailsNow ==
    /\ Streaming
    /\ pc = "exec"
    /\ Len(invoked') = Len(invoked) + 1
    /\ Last(invoked').reply # "ok"

\* C2 (amended): in a streaming run a gateway failure for one tool call
\* (transport error or error field) raises nothing out of the orchestrator:
\* the step emits tool_result with success=false and the call's id, appends
\* the tool message carrying the error and that id, and control goes on as
\* after a success: to the next tool call of the round, or after the last one
\* to the next round; there the next model call is made unless the round
\* budget is used up, in which case the run ends with error, end(length).
C2_ToolFailureCaptured ==
    /\ [][GatewayFailsNow =>
            LET tc == tool_calls_list[i]
                err == call(Last(invoked').reply).err
            IN /\ raised' = None
               /\ events' = Append(events,
                     [type |-> "tool_result", tool_call_id |-> tc.id,
                      name |-> tc.name, success |-> FALSE, error |-> err])
               /\ messages' = Append(messages,
                     [role |-> "tool", tool_call_id |-> tc.id,
                      content |-> json_dumps([error |-> err])])
               /\ IF i < Len(tool_calls_list)
                  THEN pc' = "tools" /\ i' = i + 1 /\ call_round' = call_round
                  ELSE pc' = "loop" /\ call_round' = call_round + 1]_vars
    /\ []((Streaming /\ pc = "done" /\ raised = None) =>
            \A k \in DOMAIN messages :
              IsFailedToolMsg(messages[k]) =>
                \/ modelCalls > AssistantsBefore(messages, k)
                \/ /\ AssistantsBefore(messages, k) = mcp_max_call
                   /\ EndsWith("length"))

\* A round of two calls whose first call failed at the gateway and whose
\* second call was still executed, with the next model call made
C2_Witness ==
    /\ Streaming
    /\ pc = "stream"
    /\ modelCalls = 2
    /\ Len(invoked) = 2
    /\ invoked[1].reply = "app_error"
    /\ invoked[2].reply = "ok"
    /\ raised = None

\* ---------------------------------------------------------------- C3
\* The conversation from position k on is a sequence of complete rounds: one
\* assistant message, then one tool message per tool call of that message, in
\* call order, each with that call's id.
RECURSIVE CompleteRounds(_, _)
CompleteRounds(m, k) ==
    IF k > Len(m) THEN TRUE
    ELSE /\ m[k].role = "assistant"
         /\ LET n == Len(m[k].tool_calls) IN
            /\ n >= 1
            /\ k + n <= Len(m)
            /\ \A t \in 1..n :
                 /\ m[k + t].role = "tool"
                 /\ m[k + t].tool_call_id = m[k].tool_calls[t].id
            /\ CompleteRounds(m, k + n + 1)

\* The gateway requests of round r
InvokedIn(r) == SelectSeq(invoked, LAMBDA v : v.round = r)

\* C3: whenever a model call is issued, every tool call of every earlier round
\* has been executed and its outcome appended: the history passed to the call
\* is the two seed messages followed by complete rounds (exactly one tool
\* message per tool call), and the gateway saw one request per call of the
\* round just finished.
C3_RoundResolvedBeforeModel ==
    [][modelCalls' = modelCalls + 1 =>
         /\ Len(messages) >= 2
         /\ SubSeq(messages, 1, 2) = SeedMessages
         /\ CompleteRounds(messages, 3)
         /\ call_round >= 1 =>
              /\ Len(InvokedIn(call_round - 1)) = Len(tool_calls_list)
              /\ Len(messages) >= Len(tool_calls_list) + 3
              /\ messages[Len(messages) - Len(tool_calls_list)].role
                   = "assistant"]_vars

\* The model call of round 2 has been issued after a round of two tool calls
C3_Witness ==
    /\ modelCalls = 2
    /\ call_round = 1
    /\ Len(tool_calls_list) = 2
    /\ Len(messages) = 5
    /\ pc \in {"stream", "done"}

\* ---------------------------------------------------------------- C4
\* The k-th smallest call index the model streamed in this response
KthIndex(k) ==
    CHOOSE x \in DOMAIN tool_calls_dict :
      Cardinality({y \in DOMAIN tool_calls_dict : y < x}) = k - 1

\* The k-th tool call the model proposed in this response
Proposed(k) == tool_calls_dict[KthIndex(k)]

\* The round whose tool calls tool_calls_dict holds, in a streaming run that is
\* executing them or has just finished them
RoundInHand == IF pc \in {"tools", "exec"} THEN call_round ELSE call_round - 1

ToolEvents == OfType(events, {"tool_call", "tool_result"})

Contents(evs) == [k \in DOMAIN evs |-> evs[k].content]

\* C5: a streaming run whose first model response came complete and without
\* tool calls delivered exactly: start, then one message event per content
\* fragment and one reasoning event per reasoning fragment of that response,
\* then end(finish_reason=stop); no tool_call, tool_result or error event; one
\* model call.
C5_PlainAnswerEvents ==
    (Streaming /\ pc = "done" /\ raised = None /\ toolRounds = 0
     /\ mcp_max_call >= 1) =>
      LET mid == SubSeq(events, 2, Len(events) - 1) IN
      /\ Len(events) >= 2
      /\ events[1] = StartEvent
      /\ Last(events) = EndEvent("stop", stats)
      /\ \A k \in DOMAIN mid : mid[k].type \in {"reasoning", "message"}
      /\ Contents(OfType(mid, {"message"})) = content_chunks
      /\ Contents(OfType(mid, {"reasoning"})) = reasoning_chunks
      /\ modelCalls = 1
      /\ invoked = <<>>

\* A plain answer with reasoning and content fragments has been delivered
C5_Witness ==
    /\ Streaming
    /\ pc = "done"
    /\ raised = None
    /\ toolRounds = 0
    /\ Len(events) = 5
    /\ Len(reasoning_chunks) = 2
    /\ Len(content_chunks) = 1

\* ---------------------------------------------------------------- C6
\* C6: every tool message of the conversation carries the id of a tool call
\* of an assistant message that stands earlier in the conversation.
C6_ToolMessageLinked ==
    \A k \in DOMAIN messages :
      messages[k].role = "tool" =>
        \E j \in 1..(k - 1) :
          /\ messages[j].role = "assistant"
          /\ \E t \in DOMAIN messages[j].tool_calls :
               messages[j].tool_calls[t].id = messages[k].tool_call_id

\* Tool messages of two rounds are in the conversation
C6_Witness ==
    /\ Len(messages) >= 6
    /\ messages[4].role = "tool"
    /\ messages[5].role = "assistant"
    /\ messages[6].role = "tool"

\* ---------------------------------------------------------------- C7
\* How the failure e reached the caller of the run
Surfaced(e) ==
    /\ raised = e
    /\ IF Streaming
       THEN events # <<>> /\ Last(events) = EndpointErrorEvent(e)
       ELSE reply = [status |-> 500, success |-> FALSE, error |-> e]

\* C7: once the model call has failed the run is over with that failure
\* raised to its caller, and no step follows: no model call, no tool request,
\* no message appended; the failing step itself appends no message and asks
\* the gateway nothing.
C7_ModelFailureAborts ==
    /\ [](upstreamFailure = "model" => pc = "done" /\ Surfaced("model"))
    /\ [][upstreamFailure # "model"]_vars
    /\ [][upstreamFailure' = "model" =>
            messages' = messages /\ invoked' = invoked]_vars

\* The model call of the second round failed, after a round of tool calls
C7_Witness ==
    /\ upstreamFailure = "model"
    /\ modelCalls = 2
    /\ Len(invoked) >= 1

\* ---------------------------------------------------------------- C8
\* C8: when listing the tools has failed the conversation has not started:
\* the failure is raised to the caller, no model call was issued, no message
\* was seeded and no start, reasoning, message, tool_call or tool_result event
\* was delivered.
C8_ListToolsFailureFatal ==
    upstreamFailure = "tool_list" =>
      /\ pc = "done"
      /\ Surfaced("tool_list")
      /\ modelCalls = 0
      /\ invoked = <<>>
      /\ messages = <<>>
      /\ OfType(events, {"start", "reasoning", "message", "tool_call",
                         "tool_result"}) = <<>>

\* Listing the tools failed in a streaming run
C8_Witness ==
    /\ upstreamFailure = "tool_list"
    /\ Streaming
    /\ Len(events) = 1

\* ---------------------------------------------------------------- C9
\* C9: in the stream delivered to the client every error event is followed by
\* an end event, there is at most one end event, nothing follows it, and a
\* stream that is over ends with it.
C9_ErrorFollowedByEnd ==
    Streaming =>
      /\ Len(OfType(events, {"end"})) <= 1
      /\ \A k \in DOMAIN events :
           events[k].type = "end" => k = Len(events)
      /\ pc = "done" =>
           /\ \A k \in DOMAIN events :
                events[k].type = "error" =>
                  \E j \in (k + 1)..Len(events) : events[j].type = "end"
           /\ events # <<>> => Last(events).type = "end"

\* ---------------------------------------------------------------- C10
\* C10 as stated: for every max_rounds >= 0 a streaming run that has delivered
\* any event has delivered start exactly once, as its first event.
C10_StartAlwaysFirst ==
    (Streaming /\ events # <<>>) =>
      /\ events[1].type = "start"
      /\ Len(OfType(events, {"start"})) = 1

\* C10 (amended): start is delivered at most once and only as the first
\* event, and is not repeated in later rounds; a streaming run that has
\* delivered any event has delivered start first, except a run with
\* max_rounds = 0 (its stream is error, end(length)) and a run whose tool
\* listing or first model call failed (its stream is the endpoint's error).
C10_StartOnceAndFirst ==
    Streaming =>
      /\ \A k \in DOMAIN events : events[k].type = "start" => k = 1
      /\ (pc \in {"stream", "tools", "exec"} \/ call_round >= 1) =>
           events # <<>> /\ events[1] = StartEvent
      /\ events # <<>> =>
           \/ events[1] = StartEvent
           \/ /\ mcp_max_call = 0
              /\ events = <<LengthErrorEvent, EndEvent("length", InitStats)>>
           \/ /\ upstreamFailure \in {"tool_list", "model"}
              /\ call_round = 0
              /\ modelCalls <= 1
              /\ events = <<EndpointErrorEvent(upstreamFailure)>>

\* The second round of a streaming run is being streamed
C10_Witness ==
    /\ Streaming
    /\ pc = "stream"
    /\ call_round = 1
    /\ Len(events) >= 4
    /\ events[1].type = "start"

\* --------------------------------------------------------------- C11
\* C11: a streaming run that exhausts its round budget (the model requested
\* tools in each of max_rounds >= 1 rounds and nothing was raised) is over
\* with end(finish_reason=length) as its last event and has emitted no error
\* event.
C11_NoErrorOnRoundLimit ==
    (Streaming /\ mcp_max_call >= 1 /\ pc = "done" /\ raised = None
     /\ toolRounds = mcp_max_call) =>
       /\ EndsWith("length")
       /\ OfType(events, {"error"}) = <<>>

\* --------------------------------------------------------------- C12
\* C12: in a non-streaming run a gateway failure for an individual tool call
\* does not abort the run: nothing is raised, and the failure is in the
\* conversation as a failed tool message.
C12_SyncToolFailureCaptured ==
    (mode = "sync" /\ \E k \in DOMAIN invoked : invoked[k].reply # "ok") =>
      /\ raised = None
      /\ reply.status # 500
      /\ \E k \in DOMAIN messages : IsFailedToolMsg(messages[k])

\* --------------------------------------------------------------- C19
\* C19: in a streaming run with several rounds, the prompt and completion
\* token counts carried by the end event are the sums, over the rounds whose
\* response reported usage, of the reported counts.
C19_TokensAccumulate ==
    (Streaming /\ modelCalls >= 2 /\ events # <<>>
     /\ Last(events).type = "end") =>
       /\ Last(events).stats.tokens.prompt = reportedTokens.prompt
       /\ Last(events).stats.tokens.completion = reportedTokens.completion

\* ======================================================================
\* Properties of AkshareProvider
\* ======================================================================
\* The operations of kind op in the log
Entries(op) == {k \in DOMAIN log : log[k].op = op}

\* All of the outcomes t are failures
AllFailed(t) == \A j \in DOMAIN t : ~t[j].ok

\* --------------------------------------------------------------- C13
\* C13: for every max_retries >= 1 and every k < max_retries, when fn fails
\* exactly k times and then succeeds, _call_with_retry returns the value of
\* attempt k+1 and has invoked fn exactly k+1 times: fn is never invoked
\* again after it succeeded, the value handed on is that of the successful
\* attempt, and the call that returns it has made exactly k+1 attempts.
C13_RetryReturnsFirstSuccess ==
    /\ \A c \in Callers :
         LET t == tried[c]
             n == Len(t) IN
         /\ \A j \in 1..(n - 1) : ~t[j].ok
         /\ (n >= 1 /\ t[n].ok) =>
              /\ n <= max_retries
              /\ ppc[c] \in {"store", "idle"}
              /\ df[c] = t[n].value
    /\ \A k \in Entries("get") :
         LET t == log[k].tried
             n == Len(t) IN
         (n >= 1 /\ t[n].ok) =>
           /\ AllFailed(SubSeq(t, 1, n - 1))
           /\ n <= max_retries
           /\ log[k].outcome = "fetched"
           /\ log[k].value = t[n].value

\* A call has returned the value of its second attempt, the first having failed
C13_Witness ==
    \E k \in Entries("get") :
      /\ log[k].outcome = "fetched"
      /\ Len(log[k].tried) = 2
      /\ ~log[k].tried[1].ok
      /\ log[k].value = log[k].tried[2].value

\* --------------------------------------------------------------- C14
\* C14: when fn fails on max_retries consecutive attempts, _call_with_retry
\* has invoked it exactly max_retries times, never more, and then fails with
\* the exhaustion error whose cause is the error of the last attempt.
C14_ExhaustionAfterMaxRetries ==
    /\ \A c \in Callers :
         /\ Len(tried[c]) <= max_retries
         /\ (ppc[c] # "idle" /\ Len(tried[c]) = max_retries
             /\ AllFailed(tried[c])) =>
               /\ ppc[c] = "loop"
               /\ attempt[c] = max_retries
    /\ \A k \in Entries("get") :
         LET t == log[k].tried IN
         /\ (log[k].outcome # "hit" /\ Len(t) = max_retries /\ AllFailed(t))
              => log[k].outcome = "raised"
         /\ log[k].outcome = "raised" =>
              /\ Len(t) = max_retries
              /\ AllFailed(t)
              /\ log[k].value = NoFrame
              /\ log[k].cause =
                   IF t = <<>> THEN NoError ELSE t[Len(t)].err

\* A call was exhausted after two failed attempts that raised different errors
C14_Witness ==
    \E k \in Entries("get") :
      /\ log[k].outcome = "raised"
      /\ Len(log[k].tried) = 2
      /\ log[k].tried[1].err # log[k].tried[2].err
      /\ log[k].cause = log[k].tried[2].err

\* --------------------------------------------------------------- C15
\* The slot as the operations completed before the k-th one left it: the
\* last store or clear_cache among them decides.
SlotBefore(k) ==
    LET J == {j \in 1..(k - 1) : log[j].outcome \in {"fetched", "cleared"}}
    IN  IF J = {} THEN [held |-> FALSE]
        ELSE LET j == CHOOSE x \in J : \A y \in J : y <= x IN
             IF log[j].outcome = "cleared" THEN [held |-> FALSE]
             ELSE [held |-> TRUE, value |-> log[j].value,
                   stamp |-> log[j].stamp]

\* The k-th operation went to the upstream: it entered _call_with_retry, and
\* with an attempt allowed it called fn
WentUpstream(k) ==
    /\ log[k].outcome \in {"fetched", "raised"}
    /\ max_retries >= 1 => log[k].tried # <<>>

\* C15: a get() that finds an entry with now - timestamp <= ttl returns that
\* entry and calls nothing upstream; so of two successive get() calls issued
\* within ttl of each other, the first having returned, at most one went to
\* the upstream; and a get() issued more than ttl after the held entry's
\* timestamp goes to the upstream.
C15_FreshEntryServedFromCache ==
    \A k \in Entries("get") :
      LET slot == SlotBefore(k) IN
      /\ (slot.held /\ log[k].now - slot.stamp <= snapshot_ttl_sec) =>
           /\ log[k].outcome = "hit"
           /\ log[k].value = slot.value
           /\ log[k].tried = <<>>
      /\ (slot.held /\ log[k].now - slot.stamp > snapshot_ttl_sec) =>
           WentUpstream(k)
      /\ (k > 1 /\ log[k - 1].op = "get" /\ log[k - 1].outcome # "raised"
          /\ log[k].now - log[k - 1].now <= snapshot_ttl_sec) =>
           ~(WentUpstream(k - 1) /\ WentUpstream(k))

\* Three successive get() calls: a fetch, a hit exactly ttl later, and a new
\* fetch once the entry is older than ttl
C15_Witness ==
    /\ Len(log) = 3
    /\ log[1].outcome = "fetched"
    /\ log[2].outcome = "hit"
    /\ log[2].now - log[1].now = snapshot_ttl_sec
    /\ log[3].outcome = "fetched"
    /\ log[3].now - log[1].now > snapshot_ttl_sec

\* --------------------------------------------------------------- C16
\* C16: in every sequence of get(), invalidate() and clock advances, get()
\* never returns an entry with now - timestamp > ttl, and a get() that finds
\* an expired entry and whose refresh is exhausted fails and returns nothing.
C16_NoStaleEntryReturned ==
    \A k \in Entries("get") :
      LET slot == SlotBefore(k) IN
      /\ log[k].outcome \in {"hit", "fetched"} =>
           /\ log[k].value # NoFrame
           /\ log[k].now - log[k].stamp <= snapshot_ttl_sec
      /\ log[k].outcome = "hit" =>
           /\ slot.held
           /\ log[k].stamp = slot.stamp
           /\ log[k].value = slot.value
      /\ (slot.held /\ log[k].now - slot.stamp > snapshot_ttl_sec
          /\ AllFailed(log[k].tried)) =>
           /\ log[k].outcome = "raised"
           /\ log[k].value = NoFrame

\* The refresh of an expired entry was exhausted; the entry is still there
C16_Witness ==
    \E k \in Entries("get") :
      /\ SlotBefore(k).held
      /\ log[k].now - SlotBefore(k).stamp > snapshot_ttl_sec
      /\ log[k].outcome = "raised"
      /\ log[k].tried # <<>>
      /\ snapshot_cache # NoFrame

\* --------------------------------------------------------------- C17
\* C17: when several callers invoke get() concurrently, at most one upstream
\* snapshot fetch is in flight at any time.
C17_SingleFlight ==
    Cardinality({c \in Callers : ppc[c] = "calling"}) <= 1

\* --------------------------------------------------------------- C18
\* C18: after clear_cache() the slot is empty, and the next get() goes to the
\* upstream however recently the previous entry was stored and whatever the
\* clock says.
C18_ClearForcesFetch ==
    /\ (log # <<>> /\ log[Len(log)].op = "clear") =>
         /\ snapshot_cache = NoFrame
         /\ snapshot_cache_ts = 0
    /\ \A k \in Entries("get") :
         (k > 1 /\ log[k - 1].op = "clear") => WentUpstream(k)

\* An entry was fetched, invalidated and fetched again within the same second
C18_Witness ==
    /\ Len(log) = 3
    /\ log[1].outcome = "fetched"
    /\ log[2].op = "clear"
    /\ log[3].outcome = "fetched"
    /\ log[3].now = log[1].now
    /\ log[3].tried # <<>>

\* ======================================================================
\* Properties of resolve_symbol
\* ======================================================================
\* The last resolve_symbol call got the snapshot and has answered
Answered ==
    /\ rpc = "idle"
    /\ strip(query) # <<>>
    /\ resolved # NoResult
    /\ log[Len(log)].outcome # "raised"

\* The rows of the snapshot the last query selects
Matching == hit(market, strip(query))

\* The traded-value cell the market reports for the instrument of row r
Reported(r) ==
    LET k == CHOOSE k \in DOMAIN market : market[k].code = r.code
    IN  market[k].amount

\* Row r has a traded value that is a number (given as such or as a string)
Valued(r) == amount_col /\ Reported(r).kind \in {"num", "str"}

\* Row x ranks strictly before row y
Outranks(x, y) ==
    /\ Valued(x)
    /\ ~Valued(y) \/ Reported(x).v > Reported(y).v

\* --------------------------------------------------------------- C20
\* C20: when more than one row matches, resolve_symbol raises nothing and
\* returns the matches ranked by descending traded value, the rows whose
\* traded value is missing or not a number after all the others, cut to the
\* first topn rows of that ranking, and the primary (code, name) is the first
\* row of the returned list.
C20_RankedAndTruncated ==
    (Answered /\ Len(Matching) > 1) =>
      /\ resolved.status = "returned"
      /\ LET L == resolved.hit_df
             In(r) == \E k \in DOMAIN L : L[k].code = r.code IN
         /\ Len(L) = IF topn < Len(Matching) THEN topn ELSE Len(Matching)
         /\ \A k \in DOMAIN L :
              \E j \in DOMAIN Matching :
                /\ Matching[j].code = L[k].code
                /\ Matching[j].name = L[k].name
         /\ \A a, b \in DOMAIN L :
              a < b => (L[a].code # L[b].code /\ ~Outranks(L[b], L[a]))
         /\ \A j \in DOMAIN Matching :
              ~In(Matching[j]) =>
                \A k \in DOMAIN L : ~Outranks(Matching[j], L[k])
         /\ resolved.code = L[1].code
         /\ resolved.name = L[1].name

\* Three rows matched, one of them without a traded value; the two returned
\* are not the first two of the snapshot
C20_Witness ==
    /\ Answered
    /\ amount_col
    /\ Len(Matching) = 3
    /\ topn = 2
    /\ \E j \in DOMAIN Matching : ~Valued(Matching[j])
    /\ resolved.status = "returned"
    /\ Len(resolved.hit_df) = 2
    /\ resolved.code # Matching[1].code
    /\ resolved.hit_df[2].code # Matching[2].code

\* --------------------------------------------------------------- C21
\* The trimmed query is six digits
SixDigits(q) == Len(q) = 6 /\ \A j \in DOMAIN q : q[j] \in Digits

\* C21: when exactly one row of the snapshot matches the query,
\* resolve_symbol returns that row as primary and as the only element of the
\* candidate list; in particular a six-digit query against a snapshot that
\* lists that code returns it as primary with a list of length 1.
C21_SingleMatch ==
    /\ (Answered /\ Len(Matching) = 1) =>
         resolved = Resolved(Matching[1].code, Matching[1].name,
                             <<Matching[1]>>)
    /\ LET q == strip(query) IN
       (/\ Answered
        /\ SixDigits(q)
        /\ \E k \in DOMAIN market : market[k].code = q) =>
         /\ resolved.status = "returned"
         /\ resolved.code = q
         /\ Len(resolved.hit_df) = 1
         /\ resolved.hit_df[1].code = q
         /\ \E k \in DOMAIN market : market[k] = resolved.hit_df[1]

\* A padded six-digit query found the code in the last row of a snapshot of
\* three
C21_Witness ==
    /\ Answered
    /\ query # strip(query)
    /\ SixDigits(strip(query))
    /\ Len(market) = 3
    /\ market[3].code = strip(query)
    /\ resolved.status = "returned"
    /\ resolved.hit_df = <<market[3]>>

\* --------------------------------------------------------------- C22
\* Letter case folded
Lower(c) == IF c = "A" THEN "a" ELSE IF c = "B" THEN "b" ELSE c

\* name contains q as a substring, letter case ignored
ContainsIgnoringCase(name, q) ==
    \E start \in 0..(Len(name) - Len(q)) :
      \A j \in DOMAIN q : Lower(name[start + j]) = Lower(q[j])

\* The rows the trimmed query is to select: by code when it is six digits,
\* otherwise by name
Selected ==
    LET q == strip(query) IN
    IF SixDigits(q)
    THEN SelectSeq(market, LAMBDA r : r.code = q)
    ELSE SelectSeq(market, LAMBDA r : ContainsIgnoringCase(r.name, q))

\* C22: resolve_symbol selects rows by exact equality of the code when the
\* trimmed query is exactly six digits, and otherwise selects exactly the
\* rows whose name contains the trimmed query as a substring, ignoring
\* letter case: it finds nothing iff no such row exists, and what it returns
\* are min(topn, number of such rows) of those rows.
C22_FilterByCodeOrName ==
    Answered =>
      /\ resolved.status = "raised" <=> Selected = <<>>
      /\ resolved.status = "returned" =>
           /\ Len(resolved.hit_df) =
                IF topn < Len(Selected) THEN topn ELSE Len(Selected)
           /\ \A k \in DOMAIN resolved.hit_df :
                \E j \in DOMAIN Selected :
                  Selected[j].code = resolved.hit_df[k].code

\* --------------------------------------------------------------- C23
\* C23: a resolve_symbol call whose query is empty after trimming fails with
\* the empty-query error, whatever the cache holds, and before the snapshot
\* is read or fetched: no upstream call is made, _get_spot_df is not entered
\* and the cache slot and its timestamp are left as they were.
C23_EmptyQueryRefused ==
    /\ []((/\ rpc = "idle"
           /\ resolved # NoResult
           /\ strip(query) = <<>>) => resolved = Failed("EmptyQuery"))
    /\ [][(rpc = "idle" /\ strip(query') = <<>>) =>
            /\ resolved' = Failed("EmptyQuery")
            /\ rpc' = "idle"
            /\ UNCHANGED <<snapshot_cache, snapshot_cache_ts, upstreamCalls,
                           opsStarted, log, ppc, now, clock>>]_vars

\* A blank query was refused while the cache held an entry older than ttl
C23_Witness ==
    /\ rpc = "idle"
    /\ query = <<" ">>
    /\ resolved = Failed("EmptyQuery")
    /\ snapshot_cache # NoFrame
    /\ clock - snapshot_cache_ts > snapshot_ttl_sec
    /\ upstreamCalls = 2
    /\ Len(log) = 1

\* --------------------------------------------------------------- C24
\* C24: whenever the filter selects no row of the snapshot, resolve_symbol
\* fails with the no-match error and returns no candidate; an instrument it
\* returns is always one the filter selected, never a default or arbitrary
\* one.
C24_NoMatchRaises ==
    /\ (Answered /\ Matching = <<>>) => resolved = Failed("NoMatch")
    /\ (Answered /\ resolved.status = "returned") =>
         /\ resolved.hit_df # <<>>
         /\ \E j \in DOMAIN Matching : Matching[j].code = resolved.code
         /\ \A k \in DOMAIN resolved.hit_df :
              \E j \in DOMAIN Matching :
                Matching[j].code = resolved.hit_df[k].code

\* A six-digit query named a code that a snapshot of three rows does not list
C24_Witness ==
    /\ Answered
    /\ SixDigits(strip(query))
    /\ Len(market) = 3
    /\ \A k \in DOMAIN market : market[k].code # strip(query)
    /\ resolved = Failed("NoMatch")

C30_StoredWithFreshTimestamp ==
    [][ppc[1] = "store" /\ ppc'[1] = "idle" =>
         /\ snapshot_cache_ts' = clock'
         /\ \A t \in clock'..(clock' + snapshot_ttl_sec) :
              t - snapshot_cache_ts' <= snapshot_ttl_sec]_vars

\* ======================================================================
\* Properties of the orchestrator, continued
\* ======================================================================
\* --------------------------------------------------------------- C25
\* The conversation from position k on is a sequence of complete rounds
\* followed, possibly, by the head of one more round: its assistant message
\* and the tool messages of its first calls.
RECURSIVE RoundsThenPartial(_, _)
RoundsThenPartial(m, k) ==
    IF k > Len(m) THEN TRUE
    ELSE /\ m[k].role = "assistant"
         /\ LET n == Len(m[k].tool_calls)
                have == IF k + n <= Len(m) THEN n ELSE Len(m) - k IN
            /\ n >= 1
            /\ \A t \in 1..have :
                 /\ m[k + t].role = "tool"
                 /\ m[k + t].tool_call_id = m[k].tool_calls[t].id
            /\ have = n => RoundsThenPartial(m, k + n + 1)

\* The assistant messages of the conversation
Assistants == SelectSeq(messages, LAMBDA msg : msg.role = "assistant")

CountBefore(T, k) == Len(OfType(SubSeq(events, 1, k), {T}))

\* C27: in every state of a streaming run stats.tool_calls is the number of
\* tool_call events emitted so far and stats.tool_results the number of
\* tool_result events emitted so far, those of failed calls included;
\* tool_results <= tool_calls <= tool_results + 1, the two differing exactly
\* while a call is being executed; and the Stats of every end event carry
\* tool_calls = tool_results, the counts of the events before it.
C27_StatsCountEvents ==
    Streaming =>
      /\ stats.tool_calls = CountBefore("tool_call", Len(events))
      /\ stats.tool_results = CountBefore("tool_result", Len(events))
      /\ stats.tool_results <= stats.tool_calls
      /\ stats.tool_calls <= stats.tool_results + 1
      /\ stats.tool_calls = stats.tool_results + 1 <=> pc = "exec"
      /\ \A k \in DOMAIN events :
           events[k].type = "end" =>
             /\ events[k].stats.tool_calls = events[k].stats.tool_results
             /\ events[k].stats.tool_calls = CountBefore("tool_call", k)
             /\ events[k].stats.tool_results = CountBefore("tool_result", k)

\* A run ended with three calls counted, one of which the gateway failed
C27_Witness ==
    /\ Streaming
    /\ events # <<>>
    /\ Last(events).type = "end"
    /\ Last(events).stats.tool_calls = 3
    /\ Last(events).stats.tool_results = 3
    /\ \E k \in DOMAIN events :
         events[k].type = "tool_result" /\ ~events[k].success

\* --------------------------------------------------------------- C28
\* The tool_call events emitted so far
ToolCallEvents == OfType(events, {"tool_call"})

\* The tool round the k-th tool_call event belongs to: one round begins with
\* every event numbered 1
RoundOfCall(k) ==
    Len(SelectSeq(SubSeq(ToolCallEvents, 1, k), LAMBDA e : e.index = 1))

DeltasOf(x) == SelectSeq(deltas, LAMBDA d : d.index = x)

\* The argument fragments of ds, concatenated
RECURSIVE Joined(_)
Joined(ds) ==
    IF ds = <<>> THEN "" ELSE Head(ds).arguments \o Joined(Tail(ds))

\* The last non-empty value of field f in ds, "" if there is none
RECURSIVE LastNonEmpty(_, _)
LastNonEmpty(ds, f) ==
    IF ds = <<>> THEN ""
    ELSE IF ds[Len(ds)][f] # "" THEN ds[Len(ds)][f]
    ELSE LastNonEmpty(SubSeq(ds, 1, Len(ds) - 1), f)

\* The tool calls in list L are those the deltas of the response spell out
Reassembled(L) ==
    LET Indexes == {deltas[k].index : k \in DOMAIN deltas} IN
    /\ Len(L) = Cardinality(Indexes)
    /\ \E at \in [DOMAIN L -> Indexes] :
         /\ \A a, b \in DOMAIN L : a < b => at[a] < at[b]
         /\ \A n \in DOMAIN L :
              /\ L[n].id = LastNonEmpty(DeltasOf(at[n]), "id")
              /\ L[n].name = LastNonEmpty(DeltasOf(at[n]), "name")
              /\ L[n].arguments = Joined(DeltasOf(at[n]))

\* C26: whatever tool-call deltas one streamed response delivers, the tool
\* calls used once the stream is complete are exactly one per distinct call
\* index, in ascending index order, each with the concatenation of the
\* argument fragments of its index in arrival order (fragments of different
\* indexes may interleave) and with the last non-empty id and name delivered
\* for its index; and no tool is executed while the response is being read.
C26_DeltasReassembled ==
    /\ []((Streaming /\ pc \in {"tools", "exec"}) =>
            /\ deltas # <<>>
            /\ Reassembled(tool_calls_list)
            /\ Last(messages).role = "assistant" =>
                 Last(messages).tool_calls = tool_calls_list)
    /\ []((Streaming /\ pc = "stream") =>
            /\ InvokedIn(call_round) = <<>>
            /\ Len(Assistants) = call_round
            /\ events # <<>> => Last(events).type \notin {"tool_call"})
    /\ [][(Streaming /\ Len(invoked') > Len(invoked)) =>
            /\ pc = "exec"
            /\ Reassembled(tool_calls_list)
            /\ invoked'[Len(invoked')].name = tool_calls_list[i].name
            /\ Last(events).id = tool_calls_list[i].id]_vars

\* The fragments of call 1 arrived around the first delta of call 0, whose
\* id was then delivered again: the calls used are 0 with the later id and
\* 1 with the joined arguments
C26_Witness ==
    /\ Streaming
    /\ pc = "exec"
    /\ i = 2
    /\ deltas = <<Delta(1, "b", "hist", "{"), Delta(0, "a", "quote", ""),
                  Delta(1, "", "", "}"), Delta(0, "c", "", "")>>
    /\ Len(tool_calls_list) = 2
    /\ tool_calls_list[1].id = "c"
    /\ tool_calls_list[1].name = "quote"
    /\ tool_calls_list[2].id = "b"
    /\ tool_calls_list[2].arguments = "{}"

\* --------------------------------------------------------------- C31
\* C31: a _get_spot_df call whose fetch is exhausted leaves the cache slot
\* and its timestamp exactly as they were before the call: an expired entry
\* is neither cleared nor re-stamped and an empty slot stays empty; and the
\* next _get_spot_df call goes to the upstream again.
C31_ExhaustionLeavesSlot ==
    /\ [](\A k \in Entries("get") :
            (k = Len(log) /\ log[k].outcome = "raised") =>
              /\ snapshot_cache =
                   (IF SlotBefore(k).held THEN SlotBefore(k).value
                    ELSE NoFrame)
              /\ snapshot_cache_ts =
                   (IF SlotBefore(k).held THEN SlotBefore(k).stamp ELSE 0)
              /\ ~CacheHit(clock))
    /\ [](\A k \in Entries("get") :
            (k > 1 /\ log[k - 1].outcome = "raised") => WentUpstream(k))
    /\ [][(ppc[1] \in {"loop", "calling", "sleep"}
             \/ ppc'[1] \in {"loop", "calling", "sleep"}) =>
            UNCHANGED <<snapshot_cache, snapshot_cache_ts>>]_vars

\* A call was exhausted while the slot held an expired entry, which is still
\* there under its old timestamp, and the next call is at the upstream
\* again
C31_Witness ==
    /\ Len(log) = 2
    /\ log[1].outcome = "fetched"
    /\ log[2].outcome = "raised"
    /\ log[2].tried # <<>>
    /\ snapshot_cache = log[1].value
    /\ snapshot_cache_ts = log[1].stamp
    /\ ppc[1] = "calling"

\* --------------------------------------------------------------- C32
\* The number of failed attempts in t
Failures(t) == Len(SelectSeq(t, LAMBDA a : ~a.ok))

\* C32: _call_with_retry sleeps only between attempts. No sleep precedes the
\* first attempt; an attempt in progress has been preceded by one sleep per
\* failure; a call that succeeds after k failures has slept exactly k times;
\* an exhausted call has slept exactly max_retries - 1 times, and its error is
\* raised right after the last failed attempt, no time passing in between.
C32_SleepsOnlyBetweenAttempts ==
    /\ [](tried[1] = <<>> => slept[1] = <<>>)
    /\ [](ppc[1] \in {"calling", "store"} =>
            Len(slept[1]) = Failures(tried[1]))
    /\ [](\A k \in Entries("get") :
            /\ log[k].outcome = "fetched" =>
                 /\ Len(log[k].slept) = Failures(log[k].tried)
                 /\ Len(log[k].tried) = Failures(log[k].tried) + 1
            /\ log[k].outcome = "raised" =>
                 /\ Len(log[k].tried) = max_retries
                 /\ Len(log[k].slept) = max_retries - 1
            /\ log[k].outcome = "hit" => log[k].slept = <<>>)
    /\ [][/\ ppc[1] = "sleep" =>
               /\ tried[1] # <<>>
               /\ ~tried[1][Len(tried[1])].ok
               /\ Len(tried[1]) < max_retries
               /\ ppc'[1] = "loop"
          /\ (ppc[1] = "calling" /\ Len(tried'[1]) = max_retries
                /\ ~tried'[1][max_retries].ok) =>
               /\ ppc'[1] = "loop"
               /\ clock' = clock
          /\ (ppc[1] = "loop" /\ attempt[1] >= max_retries) =>
               /\ ppc'[1] = "idle"
               /\ clock' = clock
               /\ log'[Len(log')].outcome = "raised"]_vars

\* With three attempts allowed, one call returned after two failures and two
\* sleeps, and a later call was exhausted after three failures and two sleeps
C32_Witness ==
    /\ max_retries = 3
    /\ \E j, k \in Entries("get") :
         /\ j < k
         /\ log[j].outcome = "fetched"
         /\ Failures(log[j].tried) = 2
         /\ Len(log[j].slept) = 2
         /\ log[k].outcome = "raised"
         /\ Len(log[k].tried) = 3
         /\ Len(log[k].slept) = 2

\* --------------------------------------------------------------- C33
\* The tool calls the model requested in the responses as, one after the
\* other, with the round of each; the first response of as is that of round r
RECURSIVE Requested(_, _)
Requested(as, r) ==
    IF as = <<>> THEN <<>>
    ELSE [t \in DOMAIN Head(as).tool_calls |->
            [round |-> r, id |-> Head(as).tool_calls[t].id,
             name |-> Head(as).tool_calls[t].name,
             arguments |-> Head(as).tool_calls[t].arguments]]
         \o Requested(Tail(as), r + 1)

\* The tool messages of the conversation
ToolMessages == SelectSeq(messages, LAMBDA msg : msg.role = "tool")

\* How the run ended, in either mode
Outcome ==
    IF Streaming
    THEN IF EndsWith("stop") THEN "answer"
         ELSE IF EndsWith("length") THEN "exhausted" ELSE "none"
    ELSE IF reply = Returned(Sentinel) THEN "exhausted"
         ELSE IF reply # NoReply /\ reply.success THEN "answer" ELSE "none"

\* C33: both modes run the same orchestration. What a run does is fixed by
\* the model's responses and max_rounds alone, in the same way in
\* _chat_stream and in _chat_non_stream: with every tool invocation
\* succeeding, the gateway sees exactly the tool calls the responses
\* requested, with their names and arguments, in response and call order;
\* the tool messages carry their ids and the JSON text of their results in
\* that order; one model call is made per response; and the run ends with
\* the final answer when a response requests no tool, with the exhausted
\* budget when max_rounds responses all requested tools.
C33_ModesRunTheSame ==
    (/\ pc \in {"loop", "done"}
     /\ raised = None
     /\ \A k \in DOMAIN invoked : invoked[k].reply = "ok") =>
      LET R == Requested(Assistants, 0) IN
      /\ Len(Assistants) = call_round
      /\ Len(invoked) = Len(R)
      /\ \A k \in DOMAIN R :
           /\ invoked[k].round = R[k].round
           /\ invoked[k].name = R[k].name
           /\ invoked[k].arguments = json_loads(OrEmptyObject(R[k].arguments))
      /\ Len(ToolMessages) = Len(R)
      /\ \A k \in DOMAIN R :
           ToolMessages[k] =
             ToolMsg(R[k].id, json_dumps(tool_call("ok").data))
      /\ modelCalls <= mcp_max_call
      /\ pc = "loop" => (modelCalls = call_round /\ Outcome = "none")
      /\ pc = "done" =>
           /\ Outcome \in {"answer", "exhausted"}
           /\ Outcome = "answer" <=> modelCalls = call_round + 1
           /\ Outcome = "exhausted" <=>
                (modelCalls = call_round /\ call_round = mcp_max_call)

\* A run in mode m got a response requesting quote and hist, then one
\* requesting quote, every call succeeded, and the budget of two rounds was
\* exhausted
RanTwoRounds(m) ==
    /\ mode = m
    /\ pc = "done"
    /\ raised = None
    /\ mcp_max_call = 2
    /\ Outcome = "exhausted"
    /\ Requested(Assistants, 0) =
         <<[round |-> 0, id |-> "a", name |-> "quote", arguments |-> ""],
           [round |-> 0, id |-> "b", name |-> "hist", arguments |-> "{}"],
           [round |-> 1, id |-> "a", name |-> "quote", arguments |-> ""]>>
    /\ Len(invoked) = 3
    /\ \A k \in DOMAIN invoked : invoked[k].reply = "ok"

\* The streaming variant ran those two rounds
C33_Witness == RanTwoRounds("stream")

\* The same responses, answered by the non-streaming variant
C33_WitnessSync == RanTwoRounds("sync")

\* --------------------------------------------------------------- C34
\* C34: in a streaming run, arguments of a tool call that are not valid JSON
\* fail before the call is dispatched and outside the per-call failure
\* handling. The run is aborted by a raised error: no tool_call and no
\* tool_result event is emitted for that call, no gateway request is made
\* for it, no tool message is appended for it or for the later calls of the
\* round, so that the assistant message stays with unanswered tool calls,
\* and no end event is emitted.
C34_InvalidJsonAborts ==
    /\ []((Streaming /\ raised = "json") =>
            LET n == Len(Last(Assistants).tool_calls)
                tail == SubSeq(messages, Len(messages) - (i - 1),
                               Len(messages)) IN
            /\ pc = "done"
            /\ ~JsonValid(OrEmptyObject(tool_calls_list[i].arguments))
            /\ i \in 1..n
            /\ tail[1] = Last(Assistants)
            /\ Len(InvokedIn(call_round)) = i - 1
            /\ stats.tool_calls = i - 1 + Len(Requested(
                  SubSeq(Assistants, 1, Len(Assistants) - 1), 0))
            /\ stats.tool_results = stats.tool_calls
            /\ CountBefore("tool_call", Len(events)) = stats.tool_calls
            /\ CountBefore("tool_result", Len(events)) = stats.tool_calls
            /\ OfType(events, {"end"}) = <<>>
            /\ Last(events) = EndpointErrorEvent("json"))
    /\ [][(/\ Streaming
           /\ pc = "tools"
           /\ ~JsonValid(OrEmptyObject(tool_calls_list[i].arguments))) =>
            /\ raised' = "json"
            /\ pc' = "done"
            /\ events' = Append(events, EndpointErrorEvent("json"))
            /\ UNCHANGED <<messages, invoked, stats, i, call_round>>]_vars
    /\ [][pc = "done" => UNCHANGED vars]_vars

\* The second call of a round of two had arguments that do not parse: the
\* first call was executed and answered, the second was not dispatched
C34_Witness ==
    /\ Streaming
    /\ raised = "json"
    /\ i = 2
    /\ Len(Last(Assistants).tool_calls) = 2
    /\ Len(invoked) = 1
    /\ Len(ToolMessages) = 1
    /\ Last(messages).role = "tool"
    /\ Len(OfType(events, {"tool_call"})) = 1


==============================================================================
